---- MODULE Spec2Model ----
(***************************************************************************)
(* Verification model of the aoe4draft draft state machine (lib/draft),    *)
(* its versioned store with the per-seed write lock (lib/storage), the     *)
(* mutation gateway (api/draft/action), the full-state endpoint            *)
(* (api/draft) and the draft page handlers that drive them.                *)
(*                                                                         *)
(* Thirteen specifications share the module:                                 *)
(*   SpecDraft - one draft state driven by the gateway mutations and the   *)
(*               pick handler, over an enumerated family of configs;       *)
(*   Spec      - the store, the write lock and two browser sessions that   *)
(*               issue requests concurrently;                              *)
(*   SpecGateway - Spec without the handlers that post a full state;       *)
(*   SpecStore - writeDraft, deleteDraft and cleanupOldDrafts on one seed, *)
(*               for each storage backend, with backend failures;          *)
(*   SpecRoute - the mutation gateway called with arbitrary bodies;        *)
(*   SpecAvail - SpecDraft over configurations that exercise civilization  *)
(*               availability (ban modes, duplicate picks);                *)
(*   SpecMaps  - SpecDraft over configurations that exercise map           *)
(*               availability;                                             *)
(*   SpecSync  - the draft pages' notification and polling loop against a  *)
(*               versioned store (FairSync adds the scheduling fairness);  *)
(*   SpecEvents - the in-memory publish/subscribe map and the stream       *)
(*               connections that register listeners in it;                *)
(*   SpecValidate - validateDraftConfig applied to parsed JSON values;     *)
(*   SpecUpsert - both writing endpoints called with arbitrary bodies.     *)
(*   SpecLock  - withWriteLock at the level of the writeLocks map and its  *)
(*               promises, over two seeds;                                 *)
(*   SpecUndo  - Spec with a record of which handler issued each write and *)
(*               of the record that the write replaced.                    *)
(***************************************************************************)
EXTENDS Integers, Sequences, FiniteSets, TLC

VARIABLES
    draft,      \* SpecDraft: the DraftState being driven;
                \* SpecUndo: per session, the handler of its latest full-state request
    lastOp,     \* SpecDraft: the operation that produced draft;
                \* SpecUndo: the latest write and the record it replaced
    store,      \* Spec: the persisted record {state, history, version}
    writeLocks, \* Spec: the promise chain of the seed (pending operations);
                \* SpecLock: the writeLocks map, seed -> promise stored
    clients,    \* Spec: per browser session: role, draftState, history, versionRef
    reqs,       \* Spec: per browser session: the request in flight
    writeCount, \* Spec: number of operations that completed their write
    backend,    \* SpecStore: the storage backend the process was started with
    file,       \* SpecStore: the record stored under the seed
    now,        \* SpecStore: Date.now(), in days
    pending,    \* SpecStore: the promise chain of the seed (pending writeDraft calls)
    ops,        \* SpecStore: per caller: its writeDraft call;
                \* SpecLock: the operations given to withWriteLock, in order
    calls,      \* SpecStore: number of writeDraft calls made
    returned,   \* SpecStore: the versions returned by the accepted writes, in order
    sweep,      \* SpecStore: what the running cleanupOldDrafts has selected for deletion
    resolved,   \* SpecDraft, SpecAvail: history of the steps resolved by a selection
    stored,     \* SpecSync: the version stored under the seed
    pages,      \* SpecSync: per draft page: versionRef, isSavingRef, fetchInFlight, EventSource
    inbox,      \* SpecSync: per draft page: the notifications sent and not yet handled
    listeners,  \* SpecEvents: the listener map of draft-events, per seed in insertion order
    streams,    \* SpecEvents: per stream connection: its seed and its phase
    published,  \* SpecEvents: the last publish call and the listeners it invoked
    posted,     \* SpecValidate: the parsed JSON value handed to validateDraftConfig
    verdict     \* SpecValidate: what validateDraftConfig answered

storageVars == <<backend, file, now, pending, ops, calls, returned, sweep>>

eventVars == <<stored, pages, inbox, listeners, streams, published>>

validateVars == <<posted, verdict>>

vars == <<draft, lastOp, store, writeLocks, clients, reqs, writeCount, storageVars, resolved, eventVars, validateVars>>

(***************************************************************************)
(* Bounds and catalog                                                      *)
(***************************************************************************)
MaxSteps == 3
MaxVersion == 7
MaxCalls == 3
MaxPosts == 2
MaxTail == 2
MaxDays == 8
MaxOps == 4

CivPool == <<"c1", "c2", "c3">>
MapPool == <<"m1", "m2">>
civIds == {"c1", "c2", "c3", "c4"}
mapIds == {"m1", "m2", "m3"}

DRAFT_TTL_DAYS == 7

\* lib/storage: the backend is fixed when the process starts
Backends == {"firestore", "filesystem", "blob"}
Writers == {"w1", "w2"}
NoFile == [exists |-> FALSE, version |-> 0, createdAt |-> 0, updatedAt |-> 0, payload |-> 0]
IdleOp == [pc |-> "idle", payload |-> 0, currentVersion |-> 0, createdAt |-> 0,
           readFailed |-> FALSE, result |-> "none", version |-> 0]

\* The storage layer at rest, for the specifications that do not drive it
storageIdle ==
    /\ backend = "filesystem"
    /\ file = NoFile
    /\ now = 0
    /\ pending = <<>>
    /\ ops = [w \in Writers |-> IdleOp]
    /\ calls = 0
    /\ returned = <<>>
    /\ sweep = "idle"

\* The notification layer at rest, for the specifications that do not drive it
eventsIdle ==
    /\ stored = 0
    /\ pages = <<>>
    /\ inbox = <<>>
    /\ listeners = <<>>
    /\ streams = <<>>
    /\ published = <<>>

\* No value has been handed to the validator
validateIdle ==
    /\ posted = <<>>
    /\ verdict = "none"

MAX_STEPS == 100
MAX_POOL_SIZE == 200
VALID_TEAM_SIZES == {1, 2, 3, 4}

NoIdx == -1          \* playerIndex undefined
NoItem == ""         \* pickedId null
HIDDEN == "__hidden__"

Range(s) == {s[i] : i \in DOMAIN s}

Min(a, b) == IF a < b THEN a ELSE b

(***************************************************************************)
(* Types of lib/draft                                                      *)
(***************************************************************************)
TeamKeys == {"team1", "team2"}

EmptyTeam == [civBans |-> <<>>, civPicks |-> <<>>, mapBans |-> <<>>, mapPicks |-> <<>>]

\* hiddenBanPhase null / undefined
NoPhase == [active |-> FALSE, startIndex |-> 0, team1Bans |-> <<>>, team2Bans |-> <<>>,
            team1Count |-> 0, team2Count |-> 0, target |-> "civ"]

mkStep(a, tg, tm, p, au, h) ==
    [action |-> a, target |-> tg, team |-> tm, playerIndex |-> p, auto |-> au, hidden |-> h]

validateDraftConfig(c) ==
    /\ c.teamSize \in VALID_TEAM_SIZES
    /\ c.banMode \in {"global", "per-team"}
    /\ c.allowDuplicatePicks \in BOOLEAN
    /\ Len(c.civPool) <= MAX_POOL_SIZE
    /\ \A i \in DOMAIN c.civPool : c.civPool[i] \in civIds
    /\ Len(c.mapPool) <= MAX_POOL_SIZE
    /\ \A i \in DOMAIN c.mapPool : c.mapPool[i] \in mapIds
    /\ Len(c.steps) # 0
    /\ Len(c.steps) <= MAX_STEPS
    /\ \A i \in DOMAIN c.steps :
          LET s == c.steps[i] IN
          /\ s.action \in {"ban", "pick"}
          /\ s.target \in {"civ", "map"}
          /\ s.team \in TeamKeys
          /\ (s.playerIndex # NoIdx => (s.playerIndex >= 0 /\ s.playerIndex < c.teamSize))
          /\ s.hidden \in BOOLEAN
          /\ s.auto \in BOOLEAN

createInitialDraftState(config) ==
    [config |-> config, currentStepIndex |-> 0, team1 |-> EmptyTeam, team2 |-> EmptyTeam,
     completed |-> FALSE, readyPlayers |-> {}, hiddenBanPhase |-> NoPhase]

getRequiredRoles(config) ==
    UNION {{<<"team1", i>>, <<"team2", i>>} : i \in 0..(config.teamSize - 1)}

isAllReady(state) == getRequiredRoles(state.config) \subseteq state.readyPlayers

setPlayerReady(state, role) ==
    [state EXCEPT !.readyPlayers = @ \cup {role}]

\* getCurrentStep(state) is null exactly when HasStep is false
HasStep(state) == state.currentStepIndex < Len(state.config.steps)

getCurrentStep(state) == state.config.steps[state.currentStepIndex + 1]

getTeamData(state, team) == IF team = "team1" THEN state.team1 ELSE state.team2

otherTeamOf(team) == IF team = "team1" THEN "team2" ELSE "team1"

\* A role is <<team, playerIndex>> ("team1_p0" is <<"team1", 0>>); the
\* spectator is <<"spectator", NoIdx>>.  role.startsWith("team1") is role[1].
Spectator == <<"spectator", NoIdx>>

getTeamFromRole(role) == IF role[1] \in TeamKeys THEN role[1] ELSE "none"

(***************************************************************************)
(* Availability                                                            *)
(***************************************************************************)
isTeamCivPick(s, team) == s.action = "pick" /\ s.target = "civ" /\ s.team = team

\* The replay of lines 583-592: the civs that earlier pick steps of the same
\* team and playerIndex resolved to, read from the team's civPicks by position.
myPicksReplay(state, step) ==
    LET n == Min(state.currentStepIndex, Len(state.config.steps))
        steps == state.config.steps
        picks == getTeamData(state, step.team).civPicks
        pickCount(j) == Cardinality({i \in 1..(j - 1) : isTeamCivPick(steps[i], step.team)})
    IN {picks[pickCount(j) + 1] :
           j \in {k \in 1..n : /\ isTeamCivPick(steps[k], step.team)
                                /\ steps[k].playerIndex = step.playerIndex
                                /\ pickCount(k) + 1 <= Len(picks)}}

\* getAvailableCivs that treats every draft as a per-team draft
getAvailableCivs_perTeamAlways(state) ==
    LET isPerTeam == TRUE
        has == HasStep(state)
        step == getCurrentStep(state)
        bothBans == Range(state.team1.civBans) \cup Range(state.team2.civBans)
    IN IF has /\ step.action = "ban"
       THEN LET allPicked == Range(state.team1.civPicks) \cup Range(state.team2.civPicks)
                bannedSet == IF isPerTeam
                             THEN Range(getTeamData(state, step.team).civBans)
                             ELSE bothBans
            IN SelectSeq(state.config.civPool,
                         LAMBDA id : id \notin allPicked /\ id \notin bannedSet)
       ELSE LET allowDupes == state.config.allowDuplicatePicks
                teamPicks == Range(getTeamData(state, step.team).civPicks)
                myPicks == IF ~has THEN {}
                           ELSE IF step.playerIndex # NoIdx
                           THEN myPicksReplay(state, step)
                                  \cup (IF ~allowDupes THEN teamPicks ELSE {})
                           ELSE teamPicks
            IN IF isPerTeam /\ has
               THEN LET otherBans == Range(getTeamData(state, otherTeamOf(step.team)).civBans)
                    IN SelectSeq(state.config.civPool,
                                 LAMBDA id : id \notin otherBans /\ id \notin myPicks)
               ELSE SelectSeq(state.config.civPool,
                              LAMBDA id : id \notin bothBans /\ id \notin myPicks)

getAvailableCivs(state) ==
    LET isPerTeam == state.config.banMode = "per-team"
        has == HasStep(state)
        step == getCurrentStep(state)
        bothBans == Range(state.team1.civBans) \cup Range(state.team2.civBans)
    IN IF has /\ step.action = "ban"
       THEN LET allPicked == Range(state.team1.civPicks) \cup Range(state.team2.civPicks)
                bannedSet == IF isPerTeam
                             THEN Range(getTeamData(state, step.team).civBans)
                             ELSE bothBans
            IN SelectSeq(state.config.civPool,
                         LAMBDA id : id \notin allPicked /\ id \notin bannedSet)
       ELSE LET allowDupes == state.config.allowDuplicatePicks
                teamPicks == Range(getTeamData(state, step.team).civPicks)
                myPicks == IF ~has THEN {}
                           ELSE IF step.playerIndex # NoIdx
                           THEN myPicksReplay(state, step)
                                  \cup (IF ~allowDupes THEN teamPicks ELSE {})
                           ELSE teamPicks
            IN IF isPerTeam /\ has
               THEN LET otherBans == Range(getTeamData(state, otherTeamOf(step.team)).civBans)
                    IN SelectSeq(state.config.civPool,
                                 LAMBDA id : id \notin otherBans /\ id \notin myPicks)
               ELSE SelectSeq(state.config.civPool,
                              LAMBDA id : id \notin bothBans /\ id \notin myPicks)

\* getAvailableMaps that treats every draft as a global draft
getAvailableMaps_globalAlways(state) ==
    LET isPerTeam == FALSE
        has == HasStep(state)
        step == getCurrentStep(state)
        allPicked == Range(state.team1.mapPicks) \cup Range(state.team2.mapPicks)
        bothBans == Range(state.team1.mapBans) \cup Range(state.team2.mapBans)
    IN IF has /\ step.action = "ban"
       THEN LET bannedSet == IF isPerTeam
                             THEN Range(getTeamData(state, step.team).mapBans)
                             ELSE bothBans
            IN SelectSeq(state.config.mapPool,
                         LAMBDA id : id \notin allPicked /\ id \notin bannedSet)
       ELSE IF isPerTeam /\ has
            THEN LET otherBans == Range(getTeamData(state, otherTeamOf(step.team)).mapBans)
                 IN SelectSeq(state.config.mapPool,
                              LAMBDA id : id \notin allPicked /\ id \notin otherBans)
            ELSE SelectSeq(state.config.mapPool,
                           LAMBDA id : id \notin allPicked /\ id \notin bothBans)

getAvailableMaps(state) ==
    LET isPerTeam == state.config.banMode = "per-team"
        has == HasStep(state)
        step == getCurrentStep(state)
        allPicked == Range(state.team1.mapPicks) \cup Range(state.team2.mapPicks)
        bothBans == Range(state.team1.mapBans) \cup Range(state.team2.mapBans)
    IN IF has /\ step.action = "ban"
       THEN LET bannedSet == IF isPerTeam
                             THEN Range(getTeamData(state, step.team).mapBans)
                             ELSE bothBans
            IN SelectSeq(state.config.mapPool,
                         LAMBDA id : id \notin allPicked /\ id \notin bannedSet)
       ELSE IF isPerTeam /\ has
            THEN LET otherBans == Range(getTeamData(state, otherTeamOf(step.team)).mapBans)
                 IN SelectSeq(state.config.mapPool,
                              LAMBDA id : id \notin allPicked /\ id \notin otherBans)
            ELSE SelectSeq(state.config.mapPool,
                           LAMBDA id : id \notin allPicked /\ id \notin bothBans)

\* The availability list the current step's target selects (resolveAutoStep
\* line 663, handleSelect lines 1255-1259)
availableForStep(state) ==
    IF getCurrentStep(state).target = "civ"
    THEN getAvailableCivs(state) ELSE getAvailableMaps(state)

(***************************************************************************)
(* Transitions                                                             *)
(***************************************************************************)
\* pushItem that files every item of a target under its bans
pushItem_bansOnly(teamData, step, itemId) ==
    IF step.target = "civ"
    THEN [teamData EXCEPT !.civBans = Append(@, itemId)]
    ELSE [teamData EXCEPT !.mapBans = Append(@, itemId)]

pushItem(teamData, step, itemId) ==
    IF step.target = "civ"
    THEN IF step.action = "ban"
         THEN [teamData EXCEPT !.civBans = Append(@, itemId)]
         ELSE [teamData EXCEPT !.civPicks = Append(@, itemId)]
    ELSE IF step.action = "ban"
         THEN [teamData EXCEPT !.mapBans = Append(@, itemId)]
         ELSE [teamData EXCEPT !.mapPicks = Append(@, itemId)]

applyAction(state, itemId) ==
    IF ~HasStep(state) THEN state
    ELSE LET step == getCurrentStep(state)
             pushed == IF step.team = "team1"
                       THEN [state EXCEPT !.team1 = pushItem(@, step, itemId)]
                       ELSE [state EXCEPT !.team2 = pushItem(@, step, itemId)]
             idx == state.currentStepIndex + 1
         IN [pushed EXCEPT !.currentStepIndex = idx,
                           !.completed = IF idx >= Len(state.config.steps) THEN TRUE ELSE @]

isAutoStep(state) == HasStep(state) /\ getCurrentStep(state).auto

\* resolveAutoStep that draws from the whole pool of the step's target
resolveAutoStep_fromPool(state, r) ==
    IF ~(HasStep(state) /\ getCurrentStep(state).auto)
    THEN [state |-> state, pickedId |-> NoItem]
    ELSE LET pool == IF getCurrentStep(state).target = "civ"
                     THEN state.config.civPool ELSE state.config.mapPool
         IN IF Len(pool) = 0
            THEN [state |-> state, pickedId |-> NoItem]
            ELSE LET randomId == pool[(r % Len(pool)) + 1]
                 IN [state |-> applyAction(state, randomId), pickedId |-> randomId]

\* r is the value of Math.floor(Math.random() * available.length)
resolveAutoStep(state, r) ==
    IF ~(HasStep(state) /\ getCurrentStep(state).auto)
    THEN [state |-> state, pickedId |-> NoItem]
    ELSE LET available == availableForStep(state)
         IN IF Len(available) = 0
            THEN [state |-> state, pickedId |-> NoItem]
            ELSE LET randomId == available[(r % Len(available)) + 1]
                 IN [state |-> applyAction(state, randomId), pickedId |-> randomId]
(***************************************************************************)
(* Hidden ban sub-protocol                                                 *)
(***************************************************************************)
\* A run test that lets a hidden ban of the other target continue the run
isHiddenBanRunStep_anyTarget(s, target) == s.hidden /\ s.action = "ban"

isHiddenBanRunStep(s, target) == s.hidden /\ s.action = "ban" /\ s.target = target

\* Last index (0-based, exclusive) of the contiguous run that starts at i
RECURSIVE runEnd(_, _, _)
runEnd(steps, i, target) ==
    IF i < Len(steps) /\ isHiddenBanRunStep(steps[i + 1], target)
    THEN runEnd(steps, i + 1, target)
    ELSE i

\* detectHiddenBanPhase that accepts a run in which only one team bans
detectHiddenBanPhase_oneTeamRun(config, startIndex) ==
    IF startIndex >= Len(config.steps) THEN NoPhase
    ELSE LET step == config.steps[startIndex + 1] IN
         IF ~step.hidden \/ step.action # "ban" THEN NoPhase
         ELSE LET e == runEnd(config.steps, startIndex, step.target)
                  team1Count == Cardinality({i \in startIndex..(e - 1) :
                                                config.steps[i + 1].team = "team1"})
              IN [active |-> TRUE, startIndex |-> startIndex,
                  team1Bans |-> <<>>, team2Bans |-> <<>>,
                  team1Count |-> team1Count,
                  team2Count |-> (e - startIndex) - team1Count,
                  target |-> step.target]

detectHiddenBanPhase(config, startIndex) ==
    IF startIndex >= Len(config.steps) THEN NoPhase
    ELSE LET step == config.steps[startIndex + 1] IN
         IF ~step.hidden \/ step.action # "ban" THEN NoPhase
         ELSE LET target == step.target
                  e == runEnd(config.steps, startIndex, target)
                  team1Count == Cardinality({i \in startIndex..(e - 1) :
                                                config.steps[i + 1].team = "team1"})
                  team2Count == (e - startIndex) - team1Count
              IN IF team1Count = 0 \/ team2Count = 0 THEN NoPhase
                 ELSE [active |-> TRUE, startIndex |-> startIndex,
                       team1Bans |-> <<>>, team2Bans |-> <<>>,
                       team1Count |-> team1Count, team2Count |-> team2Count,
                       target |-> target]

isHiddenBanStep(state) ==
    HasStep(state) /\ getCurrentStep(state).hidden /\ getCurrentStep(state).action = "ban"

getOrInitHiddenPhase(state) ==
    IF state.hiddenBanPhase.active THEN state
    ELSE LET phase == detectHiddenBanPhase(state.config, state.currentStepIndex)
         IN IF ~phase.active THEN state
            ELSE [state EXCEPT !.hiddenBanPhase = phase]

pushBan(teamData, target, banId) ==
    IF target = "civ"
    THEN [teamData EXCEPT !.civBans = Append(@, banId)]
    ELSE [teamData EXCEPT !.mapBans = Append(@, banId)]

\* The loop of lines 764-778: i counts the steps of the phase, t1Idx and t2Idx
\* the bans consumed from each buffer.
RECURSIVE revealLoop(_, _, _, _, _)
revealLoop(state, phase, i, t1Idx, t2Idx) ==
    IF i >= phase.team1Count + phase.team2Count THEN state
    ELSE IF phase.startIndex + i >= Len(state.config.steps) THEN state
    ELSE LET step == state.config.steps[phase.startIndex + i + 1]
             isT1 == step.team = "team1"
             bans == IF isT1 THEN phase.team1Bans ELSE phase.team2Bans
             idx == IF isT1 THEN t1Idx ELSE t2Idx
             next == IF idx < Len(bans) /\ bans[idx + 1] # NoItem
                     THEN IF isT1
                          THEN [state EXCEPT !.team1 = pushBan(@, phase.target, bans[idx + 1])]
                          ELSE [state EXCEPT !.team2 = pushBan(@, phase.target, bans[idx + 1])]
                     ELSE state
         IN revealLoop(next, phase, i + 1,
                       IF isT1 THEN t1Idx + 1 ELSE t1Idx,
                       IF isT1 THEN t2Idx ELSE t2Idx + 1)

revealHiddenBans(state) ==
    LET phase == state.hiddenBanPhase IN
    IF ~phase.active THEN state
    ELSE LET pushed == revealLoop(state, phase, 0, 0, 0)
             idx == phase.startIndex + phase.team1Count + phase.team2Count
         IN [pushed EXCEPT !.currentStepIndex = idx,
                           !.hiddenBanPhase = NoPhase,
                           !.completed = IF idx >= Len(state.config.steps) THEN TRUE ELSE @]

\* applyHiddenBan without the reveal: the completing submission is only buffered
applyHiddenBan_noReveal(state, team, itemId) ==
    LET phase == state.hiddenBanPhase IN
    IF ~phase.active THEN state
    ELSE IF team = "team1" /\ Len(phase.team1Bans) >= phase.team1Count THEN state
    ELSE IF team # "team1" /\ Len(phase.team2Bans) >= phase.team2Count THEN state
    ELSE IF team = "team1"
         THEN [state EXCEPT !.hiddenBanPhase.team1Bans = Append(@, itemId)]
         ELSE [state EXCEPT !.hiddenBanPhase.team2Bans = Append(@, itemId)]

\* applyHiddenBan without the test of a full buffer
applyHiddenBan_noCap(state, team, itemId) ==
    LET phase == state.hiddenBanPhase IN
    IF ~phase.active THEN state
    ELSE LET newPhase == IF team = "team1"
                         THEN [phase EXCEPT !.team1Bans = Append(@, itemId)]
                         ELSE [phase EXCEPT !.team2Bans = Append(@, itemId)]
             newState == [state EXCEPT !.hiddenBanPhase = newPhase]
         IN IF /\ Len(newPhase.team1Bans) >= newPhase.team1Count
               /\ Len(newPhase.team2Bans) >= newPhase.team2Count
            THEN revealHiddenBans(newState)
            ELSE newState

applyHiddenBan(state, team, itemId) ==
    LET phase == state.hiddenBanPhase IN
    IF ~phase.active THEN state
    ELSE IF team = "team1" /\ Len(phase.team1Bans) >= phase.team1Count THEN state
    ELSE IF team # "team1" /\ Len(phase.team2Bans) >= phase.team2Count THEN state
    ELSE LET newPhase == IF team = "team1"
                         THEN [phase EXCEPT !.team1Bans = Append(@, itemId)]
                         ELSE [phase EXCEPT !.team2Bans = Append(@, itemId)]
             newState == [state EXCEPT !.hiddenBanPhase = newPhase]
         IN IF /\ Len(newPhase.team1Bans) >= newPhase.team1Count
               /\ Len(newPhase.team2Bans) >= newPhase.team2Count
            THEN revealHiddenBans(newState)
            ELSE newState

hasTeamCompletedHiddenBans(state, team) ==
    LET phase == state.hiddenBanPhase IN
    IF ~phase.active THEN FALSE
    ELSE IF team = "team1" THEN Len(phase.team1Bans) >= phase.team1Count
    ELSE Len(phase.team2Bans) >= phase.team2Count

\* getAvailableForHiddenBan that also excludes what the other team has buffered
getAvailableForHiddenBan_bothBuffers(state, team) ==
    LET phase == state.hiddenBanPhase IN
    IF ~phase.active THEN <<>>
    ELSE LET hiddenBans == Range(phase.team1Bans) \cup Range(phase.team2Bans)
             picked == IF phase.target = "civ"
                       THEN Range(state.team1.civPicks) \cup Range(state.team2.civPicks)
                       ELSE Range(state.team1.mapPicks) \cup Range(state.team2.mapPicks)
             banned == IF phase.target = "civ"
                       THEN Range(state.team1.civBans) \cup Range(state.team2.civBans)
                       ELSE Range(state.team1.mapBans) \cup Range(state.team2.mapBans)
         IN SelectSeq(IF phase.target = "civ" THEN state.config.civPool
                                              ELSE state.config.mapPool,
                      LAMBDA id : id \notin picked /\ id \notin banned
                                  /\ id \notin hiddenBans)

getAvailableForHiddenBan(state, team) ==
    LET phase == state.hiddenBanPhase IN
    IF ~phase.active THEN <<>>
    ELSE LET myHiddenBans == Range(IF team = "team1" THEN phase.team1Bans ELSE phase.team2Bans)
         IN IF phase.target = "civ"
            THEN LET allPicked == Range(state.team1.civPicks) \cup Range(state.team2.civPicks)
                     allBanned == Range(state.team1.civBans) \cup Range(state.team2.civBans)
                 IN SelectSeq(state.config.civPool,
                              LAMBDA id : id \notin allPicked /\ id \notin allBanned
                                          /\ id \notin myHiddenBans)
            ELSE LET allPicked == Range(state.team1.mapPicks) \cup Range(state.team2.mapPicks)
                     allBanned == Range(state.team1.mapBans) \cup Range(state.team2.mapBans)
                 IN SelectSeq(state.config.mapPool,
                              LAMBDA id : id \notin allPicked /\ id \notin allBanned
                                          /\ id \notin myHiddenBans)

\* A redaction that announces itself with one more placeholder
redact_prepend(bans) == <<HIDDEN>> \o [i \in DOMAIN bans |-> HIDDEN]

redact(bans) == [i \in DOMAIN bans |-> HIDDEN]

\* redactHiddenBans that redacts for spectators only
redactHiddenBans_spectatorOnly(state, viewerRole) ==
    IF ~state.hiddenBanPhase.active THEN state
    ELSE IF getTeamFromRole(viewerRole) # "none" THEN state
    ELSE [state EXCEPT !.hiddenBanPhase.team1Bans = redact(@),
                       !.hiddenBanPhase.team2Bans = redact(@)]

redactHiddenBans(state, viewerRole) ==
    IF ~state.hiddenBanPhase.active THEN state
    ELSE LET viewerTeam == getTeamFromRole(viewerRole) IN
         IF viewerTeam = "team1"
         THEN [state EXCEPT !.hiddenBanPhase.team2Bans = redact(@)]
         ELSE IF viewerTeam = "team2"
         THEN [state EXCEPT !.hiddenBanPhase.team1Bans = redact(@)]
         ELSE [state EXCEPT !.hiddenBanPhase.team1Bans = redact(@),
                            !.hiddenBanPhase.team2Bans = redact(@)]

(***************************************************************************)
(* Mutation gateway: the callback POST /api/draft/action hands to          *)
(* modifyDraft.  r is the random draw an auto-resolve would use.           *)
(***************************************************************************)
ActionKinds == {"ready", "init-hidden", "hidden-ban", "auto-resolve"}

routeMutation(state, action, role, itemId, r) ==
    IF action = "ready"
    THEN [state |-> setPlayerReady(state, role), pickedId |-> NoItem]
    ELSE IF action = "init-hidden"
    THEN IF ~isHiddenBanStep(state) \/ state.hiddenBanPhase.active
         THEN [state |-> state, pickedId |-> NoItem]
         ELSE [state |-> getOrInitHiddenPhase(state), pickedId |-> NoItem]
    ELSE IF action = "hidden-ban"
    THEN LET team == getTeamFromRole(role)
             st == IF ~state.hiddenBanPhase.active /\ isHiddenBanStep(state)
                   THEN getOrInitHiddenPhase(state) ELSE state
         IN IF ~st.hiddenBanPhase.active
            THEN [state |-> st, pickedId |-> NoItem]
            ELSE [state |-> applyHiddenBan(st, team, itemId), pickedId |-> NoItem]
    ELSE IF action = "auto-resolve"
    THEN IF ~isAutoStep(state)
         THEN [state |-> state, pickedId |-> NoItem]
         ELSE resolveAutoStep(state, r)
    ELSE [state |-> state, pickedId |-> NoItem]
(***************************************************************************)
(* Draft page: when each handler or effect of DraftContent acts.  The      *)
(* guards are those of the handler plus the render condition of the        *)
(* control that invokes it.                                                *)
(***************************************************************************)
\* The ready screen replaces the whole draft view (early return of the render)
readyScreen(state) ==
    ~isAllReady(state) /\ ~state.completed /\ state.currentStepIndex = 0

canReady(state, role) == role # Spectator /\ readyScreen(state)

\* A page that offers the pick grid while a hidden phase is in progress
canSelect_duringHiddenPhase(state, role, itemId) ==
    /\ ~readyScreen(state)
    /\ ~state.completed
    /\ HasStep(state)
    /\ role # Spectator
    /\ getTeamFromRole(role) = getCurrentStep(state).team
    /\ (getCurrentStep(state).playerIndex # NoIdx
          => role[2] = getCurrentStep(state).playerIndex)
    /\ itemId \in Range(availableForStep(state))

canSelect(state, role, itemId) ==
    /\ ~readyScreen(state)
    /\ ~state.completed
    /\ ~state.hiddenBanPhase.active
    /\ HasStep(state)
    /\ role # Spectator
    /\ getTeamFromRole(role) = getCurrentStep(state).team
    /\ (getCurrentStep(state).playerIndex # NoIdx
          => role[2] = getCurrentStep(state).playerIndex)
    /\ itemId \in Range(availableForStep(state))

canHiddenBan(state, role, itemId) ==
    /\ ~readyScreen(state)
    /\ ~state.completed
    /\ state.hiddenBanPhase.active
    /\ role # Spectator
    /\ getTeamFromRole(role) # "none"
    /\ ~hasTeamCompletedHiddenBans(state, getTeamFromRole(role))
    /\ itemId \in Range(getAvailableForHiddenBan(state, getTeamFromRole(role)))

wantsInitHidden(state, role) ==
    /\ ~state.completed
    /\ isHiddenBanStep(state)
    /\ ~state.hiddenBanPhase.active
    /\ role # Spectator

wantsAutoResolve(state, role) ==
    /\ ~state.completed
    /\ isAutoStep(state)
    /\ Len(availableForStep(state)) # 0
    /\ role # Spectator

(***************************************************************************)
(* SpecDraft: one draft, every participant seeing the current state        *)
(***************************************************************************)
BanModes == {"global", "per-team"}

StepAlphabet ==
    { mkStep("ban",  "civ", "team1", NoIdx, FALSE, TRUE),
      mkStep("ban",  "civ", "team2", NoIdx, FALSE, TRUE),
      mkStep("ban",  "civ", "team1", NoIdx, TRUE,  TRUE),
      mkStep("ban",  "civ", "team2", NoIdx, TRUE,  TRUE),
      mkStep("pick", "civ", "team1", 0,     FALSE, FALSE),
      mkStep("ban",  "map", "team1", NoIdx, FALSE, TRUE),
      mkStep("pick", "map", "team1", NoIdx, TRUE,  FALSE) }

StepSeqs == UNION {[1..n -> StepAlphabet] : n \in 1..MaxSteps}

DraftConfigs ==
    {c \in [teamSize : {1}, banMode : BanModes, allowDuplicatePicks : {FALSE},
            civPool : {CivPool}, mapPool : {MapPool}, steps : StepSeqs] :
        validateDraftConfig(c)}

DraftRoles == {<<"team1", 0>>, <<"team2", 0>>}

NoOp == [op |-> "none", team |-> "none", itemId |-> NoItem]

\* The draft starts once the ready check has been passed by every player
InitDraft ==
    /\ \E c \in DraftConfigs :
          draft = [createInitialDraftState(c) EXCEPT !.readyPlayers = getRequiredRoles(c)]
    /\ lastOp = NoOp
    /\ store = <<>>
    /\ writeLocks = <<>>
    /\ clients = <<>>
    /\ reqs = <<>>
    /\ writeCount = 0
    /\ storageIdle
    /\ resolved = <<>>
    /\ eventsIdle
    /\ validateIdle

D_InitHidden(role) ==
    /\ wantsInitHidden(draft, role)
    /\ draft' = routeMutation(draft, "init-hidden", role, NoItem, 0).state
    /\ lastOp' = [op |-> "init-hidden", team |-> "none", itemId |-> NoItem]
    /\ UNCHANGED <<store, writeLocks, clients, reqs, writeCount, storageVars, resolved, eventVars, validateVars>>

D_HiddenBan(role, itemId) ==
    /\ canHiddenBan(draft, role, itemId)
    /\ draft' = routeMutation(draft, "hidden-ban", role, itemId, 0).state
    /\ lastOp' = [op |-> "hidden-ban", team |-> getTeamFromRole(role), itemId |-> itemId]
    /\ UNCHANGED <<store, writeLocks, clients, reqs, writeCount, storageVars, resolved, eventVars, validateVars>>

D_AutoResolve(role, r) ==
    /\ wantsAutoResolve(draft, role)
    /\ r < Len(availableForStep(draft))
    /\ LET res == routeMutation(draft, "auto-resolve", role, NoItem, r)
       IN /\ draft' = res.state
          /\ lastOp' = [op |-> "auto-resolve", team |-> getCurrentStep(draft).team,
                        itemId |-> res.pickedId]
          /\ resolved' = Append(resolved, [step |-> draft.currentStepIndex,
                                           itemId |-> res.pickedId])
    /\ UNCHANGED <<store, writeLocks, clients, reqs, writeCount, storageVars, eventVars, validateVars>>

D_Select(role, itemId) ==
    /\ canSelect(draft, role, itemId)
    /\ draft' = applyAction(draft, itemId)
    /\ lastOp' = [op |-> "select", team |-> getTeamFromRole(role), itemId |-> itemId]
    /\ resolved' = Append(resolved, [step |-> draft.currentStepIndex, itemId |-> itemId])
    /\ UNCHANGED <<store, writeLocks, clients, reqs, writeCount, storageVars, eventVars, validateVars>>

AllItems == Range(CivPool) \cup Range(MapPool)

NextDraft ==
    \/ \E role \in DraftRoles : D_InitHidden(role)
    \/ \E role \in DraftRoles, itemId \in AllItems : D_HiddenBan(role, itemId)
    \/ \E role \in DraftRoles, r \in 0..(Len(CivPool) - 1) : D_AutoResolve(role, r)
    \/ \E role \in DraftRoles, itemId \in AllItems : D_Select(role, itemId)

SpecDraft == InitDraft /\ [][NextDraft]_vars
(***************************************************************************)
(* Properties of the draft state machine (SpecDraft)                       *)
(***************************************************************************)
teamArray(state, team, action, target) ==
    LET td == getTeamData(state, team) IN
    IF target = "civ"
    THEN (IF action = "ban" THEN td.civBans ELSE td.civPicks)
    ELSE (IF action = "ban" THEN td.mapBans ELSE td.mapPicks)

resolvedCount(state, team, action, target) ==
    Cardinality({i \in 1..Min(state.currentStepIndex, Len(state.config.steps)) :
                    /\ state.config.steps[i].team = team
                    /\ state.config.steps[i].action = action
                    /\ state.config.steps[i].target = target})

aligned(state) ==
    \A team \in TeamKeys, action \in {"ban", "pick"}, target \in {"civ", "map"} :
        Len(teamArray(state, team, action, target)) = resolvedCount(state, team, action, target)

\* C3: step-array alignment - for every team, action and target the length of
\* the team's array equals the number of resolved steps of that kind among
\* steps[0 .. currentStepIndex-1], in every reachable draft state.
C3_StepArrayAlignment == aligned(draft)

\* The submission recorded in lastOp' makes both buffers of the phase of s full
completesPhase(s, team) ==
    LET ph == s.hiddenBanPhase IN
    /\ ph.active
    /\ IF team = "team1"
       THEN Len(ph.team1Bans) + 1 = ph.team1Count /\ Len(ph.team2Bans) >= ph.team2Count
       ELSE Len(ph.team2Bans) + 1 = ph.team2Count /\ Len(ph.team1Bans) >= ph.team1Count

bufferAfter(s, team, submitter, itemId) ==
    LET ph == s.hiddenBanPhase
        b == IF team = "team1" THEN ph.team1Bans ELSE ph.team2Bans
    IN IF team = submitter THEN Append(b, itemId) ELSE b

\* C6: reveal atomicity - the applyHiddenBan call that fills both buffers
\* returns a state with no hidden phase, currentStepIndex advanced by
\* team1Count+team2Count, and each team's ban array of the phase target
\* extended by exactly that team's buffer, in order.
C6_RevealAtomicity ==
    [][(lastOp'.op = "hidden-ban" /\ completesPhase(draft, lastOp'.team)) =>
        /\ ~draft'.hiddenBanPhase.active
        /\ draft'.currentStepIndex = draft.currentStepIndex
              + draft.hiddenBanPhase.team1Count + draft.hiddenBanPhase.team2Count
        /\ \A team \in TeamKeys :
              teamArray(draft', team, "ban", draft.hiddenBanPhase.target)
                = teamArray(draft, team, "ban", draft.hiddenBanPhase.target)
                    \o bufferAfter(draft, team, lastOp'.team, lastOp'.itemId)
      ]_vars

\* Every sequence of at most two pool items: the contents an opposing buffer
\* can have
BufferContents ==
    UNION {[1..n -> AllItems] : n \in 0..2}

withOpposingBuffer(state, team, b) ==
    IF team = "team1"
    THEN [state EXCEPT !.hiddenBanPhase.team2Bans = b]
    ELSE [state EXCEPT !.hiddenBanPhase.team1Bans = b]

\* C8: hidden-ban blindness - getAvailableForHiddenBan(state, team) is the same
\* list for any two states that differ only in the opposing team's buffer.
C8_HiddenBanBlindness ==
    draft.hiddenBanPhase.active =>
        \A team \in TeamKeys, b \in BufferContents :
            getAvailableForHiddenBan(withOpposingBuffer(draft, team, b), team)
              = getAvailableForHiddenBan(draft, team)

\* A phase in progress in which team1 may still choose an item that team2 has
\* already buffered
C8_Witness ==
    /\ draft.hiddenBanPhase.active
    /\ Len(draft.hiddenBanPhase.team2Bans) > 0
    /\ draft.hiddenBanPhase.team2Bans[1] \in Range(getAvailableForHiddenBan(draft, "team1"))
(***************************************************************************)
(* Spec: the versioned store, the per-seed write lock, the two endpoints   *)
(* and two browser sessions                                                *)
(***************************************************************************)
Clients == {"a", "b"}

hbStep(team, auto) == mkStep("ban", "civ", team, NoIdx, auto, TRUE)

mkConfig(teamSize, steps) ==
    [teamSize |-> teamSize, banMode |-> "global", allowDuplicatePicks |-> FALSE,
     civPool |-> CivPool, mapPool |-> MapPool, steps |-> steps]

\* The drafts and the roles of the two sessions that the store is explored with
Sessions ==
    { [config |-> [mkConfig(1, <<hbStep("team1", TRUE), hbStep("team2", TRUE),
                                mkStep("pick", "map", "team1", NoIdx, TRUE, FALSE)>>)
                     EXCEPT !.civPool = <<"c1", "c2">>, !.mapPool = <<"m1">>],
       roles |-> [c \in Clients |-> IF c = "a" THEN <<"team1", 0>> ELSE <<"team2", 0>>]],
      [config |-> mkConfig(1, <<hbStep("team1", FALSE), hbStep("team2", FALSE),
                                mkStep("pick", "civ", "team1", 0, FALSE, FALSE)>>),
       roles |-> [c \in Clients |-> IF c = "a" THEN <<"team1", 0>> ELSE <<"team2", 0>>]],
      [config |-> mkConfig(2, <<hbStep("team1", FALSE), hbStep("team1", FALSE),
                                hbStep("team2", FALSE)>>),
       roles |-> [c \in Clients |-> IF c = "a" THEN <<"team1", 0>> ELSE <<"team1", 1>>]],
      [config |-> mkConfig(2, <<hbStep("team1", FALSE), hbStep("team1", FALSE),
                                hbStep("team2", FALSE)>>),
       roles |-> [c \in Clients |-> IF c = "a" THEN <<"team1", 0>> ELSE <<"team2", 0>>]] }

IdleReq == [pc |-> "idle", kind |-> "none", action |-> "none", role |-> Spectator,
            itemId |-> NoItem, state |-> <<>>, history |-> <<>>, base |-> 0,
            rec |-> <<>>]

\* GET /api/draft: the record as returned to a viewer with the given role
GET(record, role) ==
    IF record.state.hiddenBanPhase.active
    THEN [record EXCEPT !.state = redactHiddenBans(record.state, role)]
    ELSE record

\* The draft page after loadDraftFromServer: state, history and versionRef of
\* the response; autoResolveStepRef is cleared when the state shown is not an
\* auto step.
adopt(client, saved) ==
    [client EXCEPT !.draftState = saved.state,
                   !.history = saved.history,
                   !.versionRef = saved.version,
                   !.autoResolveStepRef =
                       IF saved.state.completed \/ ~isAutoStep(saved.state) THEN -1 ELSE @]

show(client, state) ==
    [client EXCEPT !.draftState = state,
                   !.autoResolveStepRef =
                       IF state.completed \/ ~isAutoStep(state) THEN -1 ELSE @]

\* The players without a session have passed the ready check and stay idle
InitSessions ==
    /\ \E s \in Sessions :
          /\ validateDraftConfig(s.config)
          /\ LET absent == getRequiredRoles(s.config) \ {s.roles[c] : c \in Clients}
                 initial == [createInitialDraftState(s.config) EXCEPT !.readyPlayers = absent]
             IN /\ store = [state |-> initial, history |-> <<>>, version |-> 1]
                /\ clients = [c \in Clients |->
                                 [role |-> s.roles[c], draftState |-> initial,
                                  history |-> <<>>, versionRef |-> 1,
                                  autoResolveStepRef |-> -1]]
    /\ writeLocks = <<>>
    /\ reqs = [c \in Clients |-> IdleReq]
    /\ writeCount = 0
    /\ storageIdle
    /\ resolved = <<>>
    /\ eventsIdle
    /\ validateIdle

Init ==
    /\ draft = <<>>
    /\ lastOp = <<>>
    /\ InitSessions

\* withWriteLock: the operation is chained behind the pending ones of the seed
withWriteLock(chain, c) == Append(chain, c)

\* A chain that starts fn at once, whatever is pending before it
chainSettled_noWait(chain, c) == c \in Range(chain)

\* prev.then(fn, fn): fn starts once everything chained before it has settled
chainSettled(chain, c) == Len(chain) > 0 /\ Head(chain) = c

\* voidChain settles: the operation leaves the chain
releaseLock(chain, c) == SelectSeq(chain, LAMBDA x : x # c)

canSubmit(c) ==
    /\ reqs[c].pc = "idle"
    /\ store.version + Len(writeLocks) < MaxVersion

\* sendDraftAction -> POST /api/draft/action -> modifyDraft
sendDraftAction(c, action, itemId) ==
    /\ reqs' = [reqs EXCEPT ![c] = [IdleReq EXCEPT !.pc = "queued", !.kind = "action",
                                                   !.action = action,
                                                   !.role = clients[c].role,
                                                   !.itemId = itemId,
                                                   !.base = clients[c].versionRef]]
    /\ writeLocks' = withWriteLock(writeLocks, c)

\* saveAndSync -> POST /api/draft -> writeDraft
saveAndSync(c, state, hist) ==
    /\ validateDraftConfig(state.config)
    /\ reqs' = [reqs EXCEPT ![c] = [IdleReq EXCEPT !.pc = "queued", !.kind = "post",
                                                   !.role = clients[c].role,
                                                   !.state = state, !.history = hist,
                                                   !.base = clients[c].versionRef]]
    /\ writeLocks' = withWriteLock(writeLocks, c)

handleReady(c) ==
    /\ canSubmit(c)
    /\ canReady(clients[c].draftState, clients[c].role)
    /\ clients' = [clients EXCEPT ![c] =
                      show(@, setPlayerReady(clients[c].draftState, clients[c].role))]
    /\ sendDraftAction(c, "ready", NoItem)
    /\ UNCHANGED <<draft, lastOp, store, writeCount, storageVars, resolved, eventVars, validateVars>>

hiddenInitEffect(c) ==
    /\ canSubmit(c)
    /\ wantsInitHidden(clients[c].draftState, clients[c].role)
    /\ sendDraftAction(c, "init-hidden", NoItem)
    /\ UNCHANGED <<draft, lastOp, store, clients, writeCount, storageVars, resolved, eventVars, validateVars>>

handleHiddenBan(c, itemId) ==
    /\ canSubmit(c)
    /\ canHiddenBan(clients[c].draftState, clients[c].role, itemId)
    /\ clients' = [clients EXCEPT ![c] =
                      show(@, applyHiddenBan(clients[c].draftState,
                                             getTeamFromRole(clients[c].role), itemId))]
    /\ sendDraftAction(c, "hidden-ban", itemId)
    /\ UNCHANGED <<draft, lastOp, store, writeCount, storageVars, resolved, eventVars, validateVars>>

autoResolveEffect(c) ==
    /\ canSubmit(c)
    /\ wantsAutoResolve(clients[c].draftState, clients[c].role)
    /\ clients[c].autoResolveStepRef # clients[c].draftState.currentStepIndex
    /\ clients' = [clients EXCEPT ![c].autoResolveStepRef =
                                      clients[c].draftState.currentStepIndex]
    /\ sendDraftAction(c, "auto-resolve", NoItem)
    /\ UNCHANGED <<draft, lastOp, store, writeCount, storageVars, resolved, eventVars, validateVars>>

select(c, itemId) ==
    /\ canSubmit(c)
    /\ canSelect(clients[c].draftState, clients[c].role, itemId)
    /\ LET newHistory == Append(clients[c].history, clients[c].draftState)
           newState == applyAction(clients[c].draftState, itemId)
       IN /\ clients' = [clients EXCEPT ![c] = [show(@, newState) EXCEPT !.history = newHistory]]
          /\ saveAndSync(c, newState, newHistory)
    /\ UNCHANGED <<store, writeCount, storageVars, resolved, eventVars, validateVars>>

handleSelect(c, itemId) == select(c, itemId) /\ UNCHANGED <<draft, lastOp>>

undo(c) ==
    /\ canSubmit(c)
    /\ ~readyScreen(clients[c].draftState)
    /\ clients[c].role # Spectator
    /\ Len(clients[c].history) # 0
    /\ LET h == clients[c].history
           prev == h[Len(h)]
           newHistory == SubSeq(h, 1, Len(h) - 1)
       IN /\ clients' = [clients EXCEPT ![c] = [show(@, prev) EXCEPT !.history = newHistory]]
          /\ saveAndSync(c, prev, newHistory)
    /\ UNCHANGED <<store, writeCount, storageVars, resolved, eventVars, validateVars>>

handleUndo(c) == undo(c) /\ UNCHANGED <<draft, lastOp>>

reset(c) ==
    /\ canSubmit(c)
    /\ ~readyScreen(clients[c].draftState)
    /\ clients[c].role # Spectator
    /\ LET fresh == createInitialDraftState(clients[c].draftState.config)
       IN /\ clients' = [clients EXCEPT ![c] = [show(@, fresh) EXCEPT !.history = <<>>]]
          /\ saveAndSync(c, fresh, <<>>)
    /\ UNCHANGED <<store, writeCount, storageVars, resolved, eventVars, validateVars>>

handleReset(c) == reset(c) /\ UNCHANGED <<draft, lastOp>>

\* fetchLatest, on a notification or a poll
fetchLatest(c) ==
    /\ ~clients[c].draftState.completed
    /\ ~(reqs[c].kind = "post" /\ reqs[c].pc # "idle")
    /\ LET saved == GET(store, clients[c].role)
       IN /\ saved.version > clients[c].versionRef
          /\ clients' = [clients EXCEPT ![c] = adopt(@, saved)]
    /\ UNCHANGED <<draft, lastOp, store, writeLocks, reqs, writeCount, storageVars, resolved, eventVars, validateVars>>

\* The operation of c enters its critical section and reads the record
\* (readDraft inside the lock)
lockedRead(c) ==
    /\ reqs[c].pc = "queued"
    /\ chainSettled(writeLocks, c)
    /\ reqs' = [reqs EXCEPT ![c].pc = "locked", ![c].rec = store]
    /\ UNCHANGED <<draft, lastOp, store, writeLocks, clients, writeCount, storageVars, resolved, eventVars, validateVars>>

\* modifyDraft: apply the callback to the record read and write the result
modifyDraft(rec, req, r) ==
    LET res == routeMutation(rec.state, req.action, req.role, req.itemId, r)
    IN [record |-> [state |-> res.state, history |-> rec.history,
                    version |-> rec.version + 1],
        pickedId |-> res.pickedId]

\* writeDraft: store the posted state and history under the next version
writeDraft(rec, req) ==
    [state |-> req.state, history |-> req.history, version |-> rec.version + 1]

\* The response reaches the page: saveAndSync takes the version; the action
\* handlers reload the draft (saved) and adopt it when it is new enough.
respond(client, req, version, saved) ==
    IF req.kind = "post"
    THEN [client EXCEPT !.versionRef = version]
    ELSE LET accept == IF req.action = "auto-resolve"
                       THEN saved.version > client.versionRef
                       ELSE saved.version >= version
         IN IF accept THEN adopt(client, saved) ELSE client

\* The operation of c writes the record, leaves the chain and answers.  A
\* session has one request in flight, so the answer is taken with the write:
\* delaying it would only postpone that session's own next step.
commit(c) ==
    /\ reqs[c].pc = "locked"
    /\ \E r \in 0..(Len(CivPool) - 1) :
          LET rec == reqs[c].rec
              new == IF reqs[c].kind = "action"
                     THEN modifyDraft(rec, reqs[c], r).record
                     ELSE writeDraft(rec, reqs[c])
          IN /\ (reqs[c].kind = "action" /\ isAutoStep(rec.state)
                   => r < Len(availableForStep(rec.state)) \/ r = 0)
             /\ (~(reqs[c].kind = "action" /\ isAutoStep(rec.state)) => r = 0)
             /\ store' = new
             /\ clients' = [clients EXCEPT ![c] =
                               respond(@, reqs[c], new.version, GET(new, clients[c].role))]
    /\ reqs' = [reqs EXCEPT ![c] = IdleReq]
    /\ writeLocks' = releaseLock(writeLocks, c)
    /\ writeCount' = writeCount + 1

\* The write of c's operation, the notification left aside
lockedWrite(c) ==
    /\ commit(c)
    /\ UNCHANGED <<draft, lastOp, storageVars, resolved, eventVars, validateVars>>

Next ==
    \/ \E c \in Clients : handleReady(c)
    \/ \E c \in Clients : hiddenInitEffect(c)
    \/ \E c \in Clients, itemId \in AllItems : handleHiddenBan(c, itemId)
    \/ \E c \in Clients : autoResolveEffect(c)
    \/ \E c \in Clients, itemId \in AllItems : handleSelect(c, itemId)
    \/ \E c \in Clients : handleUndo(c)
    \/ \E c \in Clients : handleReset(c)
    \/ \E c \in Clients : fetchLatest(c)
    \/ \E c \in Clients : lockedRead(c)
    \/ \E c \in Clients : lockedWrite(c)

Spec == Init /\ [][Next]_vars

\* The sessions restricted to the mutation gateway: no pick, undo or reset
NextGateway ==
    \/ \E c \in Clients : handleReady(c)
    \/ \E c \in Clients : hiddenInitEffect(c)
    \/ \E c \in Clients, itemId \in AllItems : handleHiddenBan(c, itemId)
    \/ \E c \in Clients : autoResolveEffect(c)
    \/ \E c \in Clients : fetchLatest(c)
    \/ \E c \in Clients : lockedRead(c)
    \/ \E c \in Clients : lockedWrite(c)

SpecGateway == Init /\ [][NextGateway]_vars
(***************************************************************************)
(* Properties of the store and the gateway (Spec)                          *)
(***************************************************************************)
InitVersion == 1

locked(c) == reqs[c].pc = "locked"

\* c completes its write in this step
writes(c) == reqs[c].pc = "locked" /\ reqs'[c].pc = "idle"

C2_NoReadModifyWriteOutsideLock ==
    [][\A c \in Clients :
          writes(c) =>
             IF reqs[c].kind = "post"
             THEN reqs[c].base = store.version
             ELSE reqs[c].rec = store
      ]_vars

\* C4: in every draft state the store holds, completed is true iff
\* currentStepIndex equals the number of steps, and currentStepIndex never
\* exceeds the number of steps.
C4_StoredCompletedIffAtEnd ==
    /\ store.state.currentStepIndex <= Len(store.state.config.steps)
    /\ store.state.completed <=>
          (store.state.currentStepIndex = Len(store.state.config.steps))

phaseLength(state) == state.hiddenBanPhase.team1Count + state.hiddenBanPhase.team2Count

\* C5: currentStepIndex of the persisted state never decreases; a transition
\* leaves it unchanged, adds 1, or adds the sub-phase length on a reveal.
\* Under Spec an undo or a reset lowers it; under SpecGateway, where neither
\* exists, a reveal does.
C5_StepIndexMonotone ==
    [][LET i == store.state.currentStepIndex
           j == store'.state.currentStepIndex
       IN /\ j >= i
          /\ j - i \in {0, 1, phaseLength(store.state)}
      ]_vars

bothBuffersFull(state) ==
    /\ Len(state.hiddenBanPhase.team1Bans) >= state.hiddenBanPhase.team1Count
    /\ Len(state.hiddenBanPhase.team2Bans) >= state.hiddenBanPhase.team2Count

\* C7: no persisted record has a hidden phase in which both buffers have
\* reached their counts - the reveal is part of the serialized step that
\* records the second team's completion.
C7_NoCompletedPhasePersisted ==
    store.state.hiddenBanPhase.active => ~bothBuffersFull(store.state)

\* A hidden-ban submission that completes the phase is inside its critical
\* section while another request waits behind it
C7_Witness ==
    \E c \in Clients :
        /\ locked(c)
        /\ reqs[c].action = "hidden-ban"
        /\ completesPhase(reqs[c].rec.state, getTeamFromRole(reqs[c].role))
        /\ Len(writeLocks) = 2

sameLength(b) == [1..Len(b) -> AllItems]

ViewerRoles == {<<"team1", 0>>, <<"team1", 1>>, <<"team2", 0>>, Spectator}

withBuffers(record, b1, b2) ==
    [record EXCEPT !.state.hiddenBanPhase.team1Bans = b1,
                   !.state.hiddenBanPhase.team2Bans = b2]

\* C9: what GET returns is redacted for the viewer's role - a team viewer gets
\* the same response for any contents of the other team's buffer, a spectator
\* for any contents of both; buffer lengths and the viewer's own buffer are
\* kept, and no history entry carries a hidden phase.
C9_GetRedaction ==
    store.state.hiddenBanPhase.active =>
        LET ph == store.state.hiddenBanPhase IN
        /\ \A b \in sameLength(ph.team2Bans) :
              \A role \in {r \in ViewerRoles : getTeamFromRole(r) = "team1"} :
                 GET(withBuffers(store, ph.team1Bans, b), role) = GET(store, role)
        /\ \A b \in sameLength(ph.team1Bans) :
              \A role \in {r \in ViewerRoles : getTeamFromRole(r) = "team2"} :
                 GET(withBuffers(store, b, ph.team2Bans), role) = GET(store, role)
        /\ \A b1 \in sameLength(ph.team1Bans), b2 \in sameLength(ph.team2Bans) :
              GET(withBuffers(store, b1, b2), Spectator) = GET(store, Spectator)
        /\ \A role \in ViewerRoles :
              LET out == GET(store, role).state.hiddenBanPhase IN
              /\ Len(out.team1Bans) = Len(ph.team1Bans)
              /\ Len(out.team2Bans) = Len(ph.team2Bans)
              /\ (getTeamFromRole(role) = "team1" => out.team1Bans = ph.team1Bans)
              /\ (getTeamFromRole(role) = "team2" => out.team2Bans = ph.team2Bans)
        /\ \A i \in DOMAIN store.history : ~store.history[i].hiddenBanPhase.active

\* A stored phase in progress in which both teams have buffered a ban
C9_Witness ==
    /\ store.state.hiddenBanPhase.active
    /\ Len(store.state.hiddenBanPhase.team1Bans) > 0
    /\ Len(store.state.hiddenBanPhase.team2Bans) > 0

\* The state applyHiddenBan is applied to by the hidden-ban mutation
hiddenBanTarget(state) ==
    IF ~state.hiddenBanPhase.active /\ isHiddenBanStep(state)
    THEN getOrInitHiddenPhase(state) ELSE state

\* C10: every item the hidden-ban mutation accepts into a team's buffer is, at
\* the moment it is applied under the lock, in getAvailableForHiddenBan for
\* that team; hence no buffer holds the same item twice.
C10_HiddenBanFromAvailability ==
    [][\A c \in Clients :
          (writes(c) /\ reqs[c].action = "hidden-ban") =>
             LET st == hiddenBanTarget(store.state)
                 team == getTeamFromRole(reqs[c].role)
             IN applyHiddenBan(st, team, reqs[c].itemId) # st =>
                   reqs[c].itemId \in Range(getAvailableForHiddenBan(st, team))
      ]_vars

\* The steps of the contiguous run of hidden ban steps (one target) that
\* starts at the current step, as 0-based indexes
hiddenRun(state) ==
    LET steps == state.config.steps
        idx == state.currentStepIndex
    IN {i \in idx..(Len(steps) - 1) :
           \A j \in idx..i : /\ steps[j + 1].hidden
                              /\ steps[j + 1].action = "ban"
                              /\ steps[j + 1].target = steps[idx + 1].target}

runCount(state, team) ==
    Cardinality({i \in hiddenRun(state) : state.config.steps[i + 1].team = team})

\* The state with the phase of the run at the current step, buffers empty
withFreshPhase(state) ==
    [state EXCEPT !.hiddenBanPhase =
        [active |-> TRUE, startIndex |-> state.currentStepIndex,
         team1Bans |-> <<>>, team2Bans |-> <<>>,
         team1Count |-> runCount(state, "team1"),
         team2Count |-> runCount(state, "team2"),
         target |-> getCurrentStep(state).target]]

\* C11: hidden-phase initialisation is idempotent - the first init-hidden at a
\* hidden-ban step creates the phase with empty buffers and the counts of the
\* contiguous run; a later init-hidden leaves the state as it is.
C11_InitHiddenCreatesPhase ==
    [][\A c \in Clients :
          (writes(c) /\ reqs[c].action = "init-hidden") =>
             IF store.state.hiddenBanPhase.active THEN store'.state = store.state
             ELSE IF isHiddenBanStep(store.state)
                  THEN store'.state = withFreshPhase(store.state)
                  ELSE store'.state = store.state
      ]_vars

\* C11 as amended: the phase is created when the run at the current step holds
\* steps of both teams; when only one team bans in it, or a phase exists
\* already, init-hidden leaves the state as it is.
C11_InitHiddenIdempotent ==
    [][\A c \in Clients :
          (writes(c) /\ reqs[c].action = "init-hidden") =>
             IF store.state.hiddenBanPhase.active THEN store'.state = store.state
             ELSE IF /\ isHiddenBanStep(store.state)
                     /\ runCount(store.state, "team1") > 0
                     /\ runCount(store.state, "team2") > 0
                  THEN store'.state = withFreshPhase(store.state)
                  ELSE store'.state = store.state
      ]_vars

\* An init-hidden request is inside its critical section on a record whose
\* phase already holds a buffered ban
C11_Witness ==
    \E c \in Clients :
        /\ locked(c)
        /\ reqs[c].action = "init-hidden"
        /\ store.state.hiddenBanPhase.active
        /\ Len(store.state.hiddenBanPhase.team1Bans) > 0

C13_AutoResolveCollapse ==
    [][\A c \in Clients :
          (/\ writes(c)
           /\ reqs[c].action = "auto-resolve"
           /\ clients[c].autoResolveStepRef # -1
           /\ store'.state # store.state)
             => store.state.currentStepIndex = clients[c].autoResolveStepRef
      ]_vars
(***************************************************************************)
(* SpecStore: lib/storage on one seed                                      *)
(***************************************************************************)

\* The storage layer is driven directly: the gateway and the sessions are idle
gatewayIdle == UNCHANGED <<draft, lastOp, store, writeLocks, clients, reqs, writeCount, resolved, eventVars, validateVars>>

\* What writeDraft learns about the stored record before it writes.
\* firestore, filesystem: readDraft, which answers null on any backend error;
\* blob: head() only tells whether the blob exists, the version is assumed.
readExisting(b, f, readFails) ==
    IF b = "blob"
    THEN [currentVersion |-> IF f.exists /\ ~readFails THEN 1 ELSE 0,
          createdAt |-> now]
    ELSE IF f.exists /\ ~readFails
         THEN [currentVersion |-> f.version, createdAt |-> f.createdAt]
         ELSE [currentVersion |-> 0, createdAt |-> now]

\* The record writeDraft stores
newRecord(op) ==
    [exists |-> TRUE, version |-> op.currentVersion + 1, createdAt |-> op.createdAt,
     updatedAt |-> now, payload |-> op.payload]

\* A failed set()/put() is reported as ok: false, a failed fs.writeFile throws
writeFailure(b) == IF b = "filesystem" THEN "threw" ELSE "failed"

\* writeDraft up to withWriteLock: a payload that fails validation is refused
\* before the lock, a valid one is chained behind the pending calls
S_Call(w, valid) ==
    /\ ops[w].pc \in {"idle", "done"}
    /\ calls < MaxCalls
    /\ calls' = calls + 1
    /\ IF valid
       THEN /\ ops' = [ops EXCEPT ![w] = [IdleOp EXCEPT !.pc = "queued",
                                                        !.payload = calls + 1]]
            /\ pending' = withWriteLock(pending, w)
       ELSE /\ ops' = [ops EXCEPT ![w] = [IdleOp EXCEPT !.pc = "done",
                                                        !.payload = calls + 1,
                                                        !.result = "failed"]]
            /\ UNCHANGED pending
    /\ UNCHANGED <<backend, file, now, returned, sweep>>
    /\ gatewayIdle

\* The locked callback, first half: read the existing record
S_Read(w, readFails) ==
    /\ ops[w].pc = "queued"
    /\ chainSettled(pending, w)
    /\ LET existing == readExisting(backend, file, readFails)
       IN ops' = [ops EXCEPT ![w].pc = "read",
                             ![w].currentVersion = existing.currentVersion,
                             ![w].createdAt = existing.createdAt,
                             ![w].readFailed = readFails /\ file.exists]
    /\ UNCHANGED <<backend, file, now, pending, calls, returned, sweep>>
    /\ gatewayIdle

\* The locked callback, second half: store the record and settle the chain
S_Put(w, writeFails) ==
    /\ ops[w].pc = "read"
    /\ IF writeFails
       THEN /\ ops' = [ops EXCEPT ![w].pc = "done",
                                  ![w].result = writeFailure(backend)]
            /\ UNCHANGED <<file, returned>>
       ELSE /\ file' = newRecord(ops[w])
            /\ ops' = [ops EXCEPT ![w].pc = "done", ![w].result = "ok",
                                  ![w].version = ops[w].currentVersion + 1]
            /\ returned' = Append(returned, ops[w].currentVersion + 1)
    /\ pending' = releaseLock(pending, w)
    /\ UNCHANGED <<backend, now, calls, sweep>>
    /\ gatewayIdle

\* deleteDraft does not take the write lock; a failed delete changes nothing
S_Delete ==
    /\ file.exists
    /\ file' = NoFile
    /\ UNCHANGED <<backend, now, pending, ops, calls, returned, sweep>>
    /\ gatewayIdle

\* cleanupOldDrafts, first half: the record is read (query, download or
\* readFile) and selected when it was last written before the cutoff
S_Scan ==
    /\ sweep = "idle"
    /\ file.exists
    /\ file.updatedAt < now - DRAFT_TTL_DAYS
    /\ sweep' = "expired"
    /\ UNCHANGED <<backend, file, now, pending, ops, calls, returned>>
    /\ gatewayIdle

\* cleanupOldDrafts, second half: batch.commit, del or unlink removes what is
\* stored under the selected key; the sweep does not take the write lock
S_Cleanup ==
    /\ sweep = "expired"
    /\ file' = NoFile
    /\ sweep' = "idle"
    /\ UNCHANGED <<backend, now, pending, ops, calls, returned>>
    /\ gatewayIdle

\* Time passes: a day, or longer than the retention period
S_Tick(d) ==
    /\ now + d <= MaxDays
    /\ now' = now + d
    /\ UNCHANGED <<backend, file, pending, ops, calls, returned, sweep>>
    /\ gatewayIdle

InitStore ==
    /\ draft = <<>>
    /\ lastOp = <<>>
    /\ store = <<>>
    /\ writeLocks = <<>>
    /\ clients = <<>>
    /\ reqs = <<>>
    /\ writeCount = 0
    /\ backend \in Backends
    /\ file = NoFile
    /\ now = 0
    /\ pending = <<>>
    /\ ops = [w \in Writers |-> IdleOp]
    /\ calls = 0
    /\ returned = <<>>
    /\ sweep = "idle"
    /\ resolved = <<>>
    /\ eventsIdle
    /\ validateIdle

NextStore ==
    \/ \E w \in Writers, valid \in BOOLEAN : S_Call(w, valid)
    \/ \E w \in Writers, readFails \in BOOLEAN : S_Read(w, readFails)
    \/ \E w \in Writers, writeFails \in BOOLEAN : S_Put(w, writeFails)
    \/ S_Scan
    \/ S_Cleanup
    \/ S_Delete
    \/ \E d \in {1, DRAFT_TTL_DAYS + 1} : S_Tick(d)

SpecStore == InitStore /\ [][NextStore]_vars

\* An accepted write of caller w happens in this step
accepts(w) == ops[w].pc = "read" /\ ops'[w].pc = "done" /\ ops'[w].result = "ok"

\* C14: every accepted write stores the version stored immediately before it
\* plus one (1 for a seed without record), refreshes updatedAt and keeps the
\* createdAt of the record it replaces, whatever the storage backend
C14_WriteIncrementsVersion ==
    [][\A w \in Writers : accepts(w) =>
          /\ file'.version = (IF file.exists THEN file.version + 1 ELSE 1)
          /\ file'.updatedAt = now
          /\ file.exists => file'.createdAt = file.createdAt]_vars

\* C15: over writes, deletes, purges and transient read failures on one seed,
\* the versions returned by successive accepted writes are strictly increasing
C15_VersionStrictlyIncreasing ==
    \A i, j \in 1..Len(returned) : i < j => returned[i] < returned[j]

\* Caller w's locked callback ends in this step
settles(w) == ops[w].pc = "read" /\ ops'[w].pc = "done"

\* C17: a write that met a storage failure (the read of the existing record or
\* the write itself failed) reports failure, leaves the stored record as it
\* was and leaves the promise chain of the seed
C17_StorageFailureLeavesStore ==
    [][\A w \in Writers :
          (settles(w) /\ (ops[w].readFailed \/ ops'[w].result # "ok")) =>
              /\ ops'[w].result \in {"failed", "threw"}
              /\ file' = file
              /\ w \notin Range(pending')]_vars

(***************************************************************************)
(* SpecRoute: POST /api/draft/action called with arbitrary bodies          *)
(***************************************************************************)

\* A body without role
NoRole == <<"", NoIdx>>

\* The checks of the route before modifyDraft; the seed is the session's
validateAction(action, role, itemId) ==
    IF action = ""
    THEN "Missing action"
    ELSE IF role = NoRole
    THEN "Missing role"
    ELSE IF action = "hidden-ban" /\ itemId = NoItem
    THEN "Missing itemId"
    ELSE IF action = "hidden-ban" /\ getTeamFromRole(role) = "none"
    THEN "Invalid role for ban"
    ELSE "ok"

\* The bodies tried: the four kinds and a kind the route does not know, with
\* the caller's role, the spectator role or none; itemId only matters to a
\* hidden-ban.  The id posted is a civilization that three of the drafts
\* have in their pool and the first one has not.
PostedActions == ActionKinds \cup {"undo"}
PostedRoles == {NoRole, Spectator} \cup {<<t, 0>> : t \in TeamKeys}
PostedItems == {NoItem, "c3"}

\* POST /api/draft/action: a 400 answer, or the mutation chained on the seed
POST(c, action, role, itemId) ==
    /\ reqs[c].pc \in {"idle", "rejected"}
    /\ role \in {NoRole, Spectator, clients[c].role}
    /\ action # "hidden-ban" => itemId = NoItem
    /\ writeCount + Len(writeLocks) < MaxPosts
    /\ LET body == [IdleReq EXCEPT !.kind = "action", !.action = action, !.role = role,
                                   !.itemId = itemId, !.base = clients[c].versionRef]
       IN IF validateAction(action, role, itemId) # "ok"
          THEN /\ reqs' = [reqs EXCEPT ![c] = [body EXCEPT !.pc = "rejected"]]
               /\ UNCHANGED writeLocks
          ELSE /\ reqs' = [reqs EXCEPT ![c] = [body EXCEPT !.pc = "queued"]]
               /\ writeLocks' = withWriteLock(writeLocks, c)
    /\ UNCHANGED <<draft, lastOp, store, clients, writeCount, storageVars, resolved, eventVars, validateVars>>

NextRoute ==
    \/ \E c \in Clients, action \in PostedActions, role \in PostedRoles,
          itemId \in PostedItems : POST(c, action, role, itemId)
    \/ \E c \in Clients : fetchLatest(c)
    \/ \E c \in Clients : lockedRead(c)
    \/ \E c \in Clients : lockedWrite(c)

SpecRoute == Init /\ [][NextRoute]_vars

\* c's request is received in this step
posts(c) == reqs'[c] # reqs[c] /\ reqs'[c].pc \in {"queued", "rejected"}

malformed(req) ==
    \/ req.action \notin ActionKinds
    \/ req.role = NoRole
    \/ req.action = "hidden-ban"
          /\ (req.itemId = NoItem \/ getTeamFromRole(req.role) = "none")

\* C16: a request with an unknown action kind, without role, or a hidden-ban
\* without item id or from a role without team is answered with an error
\* before it is chained on the seed's lock, and leaves the record untouched
C16_RejectsMalformedRequests ==
    [][\A c \in Clients : (posts(c) /\ malformed(reqs'[c])) =>
          /\ reqs'[c].pc = "rejected"
          /\ writeLocks' = writeLocks
          /\ store' = store]_vars

(***************************************************************************)
(* SpecAvail: drafts of normal bans and picks, after an optional hidden run *)
(***************************************************************************)

\* The hidden run a draft may open with, and the one whose steps are auto too
PlainRuns ==
    { <<>>,
      <<mkStep("ban", "civ", "team1", NoIdx, FALSE, TRUE),
        mkStep("ban", "civ", "team2", NoIdx, FALSE, TRUE)>> }

AutoRun ==
    <<mkStep("ban", "civ", "team1", NoIdx, TRUE, TRUE),
      mkStep("ban", "civ", "team2", NoIdx, TRUE, TRUE)>>

PickAlphabet ==
    { mkStep("pick", "civ", "team1", 0,     FALSE, FALSE),
      mkStep("pick", "civ", "team2", 0,     FALSE, FALSE),
      mkStep("pick", "civ", "team1", NoIdx, FALSE, FALSE),
      mkStep("pick", "civ", "team1", 0,     TRUE,  FALSE) }

TailAlphabet ==
    PickAlphabet \cup
    { mkStep("ban",  "civ", "team1", NoIdx, FALSE, FALSE),
      mkStep("ban",  "civ", "team2", NoIdx, FALSE, FALSE),
      mkStep("ban",  "map", "team1", NoIdx, FALSE, FALSE),
      mkStep("ban",  "map", "team2", NoIdx, FALSE, FALSE),
      mkStep("pick", "map", "team1", NoIdx, FALSE, FALSE),
      mkStep("pick", "map", "team2", NoIdx, FALSE, FALSE) }

Tails(alphabet) == UNION {[1..n -> alphabet] : n \in 1..MaxTail}

\* Any steps after a plain run or none, civ picks after the auto run
AvailSteps ==
    {run \o tail : run \in PlainRuns, tail \in Tails(TailAlphabet)}
        \cup {AutoRun \o tail : tail \in Tails(PickAlphabet)}

AvailConfigs ==
    {c \in [teamSize : {1}, banMode : BanModes, allowDuplicatePicks : BOOLEAN,
            civPool : {CivPool}, mapPool : {MapPool}, steps : AvailSteps] :
        validateDraftConfig(c)}

InitAvail ==
    /\ \E c \in AvailConfigs :
          draft = [createInitialDraftState(c) EXCEPT !.readyPlayers = getRequiredRoles(c)]
    /\ lastOp = NoOp
    /\ store = <<>>
    /\ writeLocks = <<>>
    /\ clients = <<>>
    /\ reqs = <<>>
    /\ writeCount = 0
    /\ storageIdle
    /\ resolved = <<>>
    /\ eventsIdle
    /\ validateIdle

SpecAvail == InitAvail /\ [][NextDraft]_vars

\* The revealed bans and the picks of a target
bansOf(state, team, target) == Range(teamArray(state, team, "ban", target))
allBansOf(state, target) == bansOf(state, "team1", target) \cup bansOf(state, "team2", target)
picksOf(state, team, target) == Range(teamArray(state, team, "pick", target))
allPicksOf(state, target) == picksOf(state, "team1", target) \cup picksOf(state, "team2", target)

\* A selection (manual or automatic) resolves the current step in this step
selects == resolved' # resolved

\* C18: in global ban mode no revealed ban of either team is in the
\* availability of a ban or pick step of the same target, so a selection at a
\* non-hidden ban step never repeats a ban and a pick never takes a banned item
C18_GlobalBanSymmetry ==
    /\ [](draft.config.banMode = "global" /\ HasStep(draft) =>
             Range(availableForStep(draft))
                 \cap allBansOf(draft, getCurrentStep(draft).target) = {})
    /\ [][(draft.config.banMode = "global" /\ selects
             /\ ~(getCurrentStep(draft).action = "ban" /\ getCurrentStep(draft).hidden)) =>
                lastOp'.itemId \notin allBansOf(draft, getCurrentStep(draft).target)]_vars

\* Global mode: team1 has banned, and the last selection was made by team2 at
\* a later ban or pick step of the same target
C18_Witness ==
    /\ draft.config.banMode = "global"
    /\ lastOp.op = "select"
    /\ lastOp.team = "team2"
    /\ \E e \in Range(resolved) :
          LET s == draft.config.steps[e.step + 1]
          IN /\ e.itemId = lastOp.itemId
             /\ s.team = "team2"
             /\ bansOf(draft, "team1", s.target) \ {e.itemId} # {}

C20_NoSelfRepeat ==
    (HasStep(draft) /\ getCurrentStep(draft).action = "pick"
        /\ getCurrentStep(draft).target = "civ"
        /\ getCurrentStep(draft).playerIndex # NoIdx) =>
        LET step == getCurrentStep(draft)
        IN \A e \in Range(resolved) :
              (/\ e.step < draft.currentStepIndex
               /\ isTeamCivPick(draft.config.steps[e.step + 1], step.team)
               /\ draft.config.steps[e.step + 1].playerIndex = step.playerIndex)
                  => e.itemId \notin Range(getAvailableCivs(draft))

\* The civilizations that earlier pick steps of the current step's team and
\* player resolved to, according to the history of selections
ownEarlierPicks(state) ==
    LET step == getCurrentStep(state)
    IN {e.itemId : e \in {f \in Range(resolved) :
            /\ f.step < state.currentStepIndex
            /\ isTeamCivPick(state.config.steps[f.step + 1], step.team)
            /\ state.config.steps[f.step + 1].playerIndex = step.playerIndex}}

\* The civilizations the bans remove from the current pick step
bannedForPick(state) ==
    IF state.config.banMode = "per-team"
    THEN bansOf(state, otherTeamOf(getCurrentStep(state).team), "civ")
    ELSE allBansOf(state, "civ")

NoDuplicates(seq) == \A i, j \in DOMAIN seq : i # j => seq[i] # seq[j]

atCivPick(state) ==
    HasStep(state) /\ getCurrentStep(state).action = "pick"
        /\ getCurrentStep(state).target = "civ"

\* C21: without duplicates allowed, or at a team-level pick step, no civ of
\* the acting team's civPicks is available, and without duplicates allowed a
\* team's civPicks never repeats a civ; with duplicates allowed, at a step
\* with a playerIndex, the picks excluded are exactly the acting player's own
\* earlier picks
C21_WholeTeamExclusivity ==
    /\ (atCivPick(draft) /\ (~draft.config.allowDuplicatePicks
                               \/ getCurrentStep(draft).playerIndex = NoIdx)) =>
           Range(getAvailableCivs(draft))
               \cap picksOf(draft, getCurrentStep(draft).team, "civ") = {}
    /\ ~draft.config.allowDuplicatePicks =>
           NoDuplicates(draft.team1.civPicks) /\ NoDuplicates(draft.team2.civPicks)
    /\ (atCivPick(draft) /\ draft.config.allowDuplicatePicks
           /\ getCurrentStep(draft).playerIndex # NoIdx) =>
           Range(getAvailableCivs(draft)) =
               (Range(draft.config.civPool) \ bannedForPick(draft)) \ ownEarlierPicks(draft)

(***************************************************************************)
(* SpecMaps: map drafts, after an optional hidden run of map bans          *)
(***************************************************************************)
MapPool3 == <<"m1", "m2", "m3">>

MapRuns ==
    { <<>>,
      <<mkStep("ban", "map", "team1", NoIdx, FALSE, TRUE),
        mkStep("ban", "map", "team2", NoIdx, FALSE, TRUE)>>,
      <<mkStep("ban", "map", "team1", NoIdx, TRUE, TRUE),
        mkStep("ban", "map", "team2", NoIdx, TRUE, TRUE)>> }

MapAlphabet ==
    { mkStep("ban",  "map", "team1", NoIdx, FALSE, FALSE),
      mkStep("ban",  "map", "team2", NoIdx, FALSE, FALSE),
      mkStep("pick", "map", "team1", NoIdx, FALSE, FALSE),
      mkStep("pick", "map", "team2", NoIdx, FALSE, FALSE),
      mkStep("pick", "map", "team1", NoIdx, TRUE,  FALSE) }

MapConfigs ==
    {c \in [teamSize : {1}, banMode : BanModes, allowDuplicatePicks : {FALSE},
            civPool : {CivPool}, mapPool : {MapPool3},
            steps : {run \o tail : run \in MapRuns, tail \in Tails(MapAlphabet)}] :
        validateDraftConfig(c)}

InitMaps ==
    /\ \E c \in MapConfigs :
          draft = [createInitialDraftState(c) EXCEPT !.readyPlayers = getRequiredRoles(c)]
    /\ lastOp = NoOp
    /\ store = <<>>
    /\ writeLocks = <<>>
    /\ clients = <<>>
    /\ reqs = <<>>
    /\ writeCount = 0
    /\ storageIdle
    /\ resolved = <<>>
    /\ eventsIdle
    /\ validateIdle

SpecMaps == InitMaps /\ [][NextDraft]_vars

\* The entries a step appends to a team's map bans
newMapBans(team) ==
    LET old == getTeamData(draft, team).mapBans
        new == getTeamData(draft', team).mapBans
    IN {new[i] : i \in (Len(old) + 1)..Len(new)}

\* C22: at every map ban or pick step no map picked by either team is
\* available, no map is picked twice over both teams, and no map enters a
\* team's map bans after it has been picked
C22_MapsNotRepeatable ==
    /\ []((HasStep(draft) /\ getCurrentStep(draft).target = "map") =>
             Range(getAvailableMaps(draft)) \cap allPicksOf(draft, "map") = {})
    /\ []NoDuplicates(draft.team1.mapPicks \o draft.team2.mapPicks)
    /\ [][\A team \in TeamKeys :
             newMapBans(team) \cap allPicksOf(draft, "map") = {}]_vars

\* Some participant has a transition that changes the draft
advances == NextDraft /\ draft' # draft

\* C23: in every reachable state of an accepted configuration that is not
\* completed, some transition that advances the draft is enabled
C23_NoDeadlock == ~draft.completed => ENABLED advances

(***************************************************************************)
(* SpecSync: the draft pages of one seed, each with its EventSource, its   *)
(* fetchLatest and its saveAndSync, against the stored version.            *)
(***************************************************************************)
MaxSync == 3

Pages == {"p1", "p2"}

\* Everything outside the notification loop stays at rest
syncIdle ==
    UNCHANGED <<draft, lastOp, store, writeLocks, clients, reqs, writeCount,
                storageVars, resolved, listeners, streams, published, validateVars>>

\* publish(seed, version) as the pages see it: one message per page whose
\* EventSource is still open
notify(boxes, version) ==
    [q \in Pages |-> IF pages[q].sse THEN Append(boxes[q], version) ELSE boxes[q]]

\* fetchLatest: returns at once while a save or a fetch is in flight
fetchLatestStarts(p) == ~pages[p].isSaving /\ pages[p].fetchInFlight = "no"

\* saveAndSync up to the request: isSavingRef.current = true
Y_Save(p) ==
    /\ ~pages[p].isSaving
    /\ stored < MaxSync
    /\ pages' = [pages EXCEPT ![p].isSaving = TRUE, ![p].result = 0]
    /\ UNCHANGED <<stored, inbox>>
    /\ syncIdle

\* POST /api/draft for the request of p: the write, then publish(seed, version)
Y_Write(p) ==
    /\ pages[p].isSaving
    /\ pages[p].result = 0
    /\ stored' = stored + 1
    /\ pages' = [pages EXCEPT ![p].result = stored + 1]
    /\ inbox' = notify(inbox, stored + 1)
    /\ syncIdle

\* saveAndSync after the response: versionRef.current = result.version,
\* finally isSavingRef.current = false
Y_Saved(p) ==
    /\ pages[p].isSaving
    /\ pages[p].result # 0
    /\ pages' = [pages EXCEPT ![p].versionRef = pages[p].result,
                              ![p].isSaving = FALSE,
                              ![p].result = 0]
    /\ UNCHANGED <<stored, inbox>>
    /\ syncIdle

\* es.onmessage: fetchLatest() when the notified version is newer
Y_Message(p) ==
    /\ inbox[p] # <<>>
    /\ inbox' = [inbox EXCEPT ![p] = Tail(inbox[p])]
    /\ pages' = IF Head(inbox[p]) > pages[p].versionRef /\ fetchLatestStarts(p)
                THEN [pages EXCEPT ![p].fetchInFlight = "sent"]
                ELSE pages
    /\ UNCHANGED stored
    /\ syncIdle

\* es.onerror: the EventSource is closed and the 3 s interval starts
Y_Error(p) ==
    /\ pages[p].sse
    /\ pages' = [pages EXCEPT ![p].sse = FALSE]
    /\ inbox' = [inbox EXCEPT ![p] = <<>>]
    /\ UNCHANGED stored
    /\ syncIdle

\* A tick of the fallback interval: fetchLatest()
Y_Poll(p) ==
    /\ ~pages[p].sse
    /\ fetchLatestStarts(p)
    /\ pages' = [pages EXCEPT ![p].fetchInFlight = "sent"]
    /\ UNCHANGED <<stored, inbox>>
    /\ syncIdle

\* GET /api/draft for the fetch of p: the server reads the record
Y_Load(p) ==
    /\ pages[p].fetchInFlight = "sent"
    /\ pages' = [pages EXCEPT ![p].fetchInFlight = "read", ![p].saved = stored]
    /\ UNCHANGED <<stored, inbox>>
    /\ syncIdle

\* fetchLatest after the response: adopt a newer record, finally
\* fetchInFlight = false
Y_Adopt(p) ==
    /\ pages[p].fetchInFlight = "read"
    /\ pages' = [pages EXCEPT
                   ![p].versionRef = IF pages[p].saved > pages[p].versionRef
                                     THEN pages[p].saved ELSE pages[p].versionRef,
                   ![p].fetchInFlight = "no",
                   ![p].saved = 0]
    /\ UNCHANGED <<stored, inbox>>
    /\ syncIdle

\* Both pages have loaded version 1 and opened their EventSource
InitSync ==
    /\ draft = <<>>
    /\ lastOp = <<>>
    /\ store = <<>>
    /\ writeLocks = <<>>
    /\ clients = <<>>
    /\ reqs = <<>>
    /\ writeCount = 0
    /\ storageIdle
    /\ resolved = <<>>
    /\ stored = 1
    /\ pages = [p \in Pages |-> [versionRef |-> 1, sse |-> TRUE, isSaving |-> FALSE,
                                 result |-> 0, fetchInFlight |-> "no", saved |-> 0]]
    /\ inbox = [p \in Pages |-> <<>>]
    /\ listeners = <<>>
    /\ streams = <<>>
    /\ published = <<>>
    /\ validateIdle

NextSync ==
    \/ \E p \in Pages : Y_Save(p)
    \/ \E p \in Pages : Y_Write(p)
    \/ \E p \in Pages : Y_Saved(p)
    \/ \E p \in Pages : Y_Message(p)
    \/ \E p \in Pages : Y_Error(p)
    \/ \E p \in Pages : Y_Poll(p)
    \/ \E p \in Pages : Y_Load(p)
    \/ \E p \in Pages : Y_Adopt(p)

SpecSync == InitSync /\ [][NextSync]_vars

\* The server answers every request, the browser runs every callback and the
\* interval keeps ticking; nobody has to save, and no EventSource has to fail.
FairSync ==
    /\ SpecSync
    /\ \A p \in Pages :
        /\ WF_vars(Y_Write(p))
        /\ WF_vars(Y_Saved(p))
        /\ WF_vars(Y_Message(p))
        /\ WF_vars(Y_Poll(p))
        /\ WF_vars(Y_Load(p))
        /\ WF_vars(Y_Adopt(p))

\* C24: a page whose versionRef is behind the stored version eventually
\* adopts it, and once the writes have stopped every page holds the latest
\* stored version
C24_StaleClientReconciles ==
    /\ \A p \in Pages :
        (pages[p].versionRef < stored) ~> (pages[p].versionRef >= stored)
    /\ <>[](\A p \in Pages : pages[p].versionRef = stored)

(***************************************************************************)
(* SpecEvents: the listener map of lib/draft-events and the stream         *)
(* connections of api/draft/stream that subscribe to it.                   *)
(***************************************************************************)
MaxPublish == 2

Seeds == {"s1", "s2"}

Conns == {"k1", "k2", "k3"}

NoSeed == ""

\* A connection that has not been requested yet
NoStream == [seed |-> NoSeed, subscribed |-> FALSE, aborted |-> FALSE,
             cancelled |-> FALSE, received |-> 0]

\* The listener map holds one insertion-ordered Set per seed; a seed without
\* entry is written as the empty sequence.
\* subscribe: listeners.get(seed).add(listener)
subscribe(map, seed, listener) ==
    IF listener \in Range(map[seed]) THEN map
    ELSE [map EXCEPT ![seed] = Append(@, listener)]

\* The function returned by subscribe, with every listener of the seed removed
unsubscribe_dropKey(map, seed, listener) ==
    [map EXCEPT ![seed] = <<>>]

\* The function returned by subscribe: set.delete(listener), and the entry
\* of the seed goes with its last listener
unsubscribe(map, seed, listener) ==
    [map EXCEPT ![seed] = SelectSeq(@, LAMBDA l : l # listener)]

RECURSIVE untilThrow(_, _)
untilThrow(set, throwers) ==
    IF set = <<>> THEN <<>>
    ELSE IF Head(set) \in throwers THEN <<Head(set)>>
    ELSE <<Head(set)>> \o untilThrow(Tail(set), throwers)

\* publish without the try/catch: the first throwing listener ends the loop
\* and the exception leaves publish
publish_noCatch(map, seed, throwers) ==
    [invoked |-> untilThrow(map[seed], throwers),
     threw |-> Range(map[seed]) \cap throwers # {}]

\* publish: every listener of the seed's Set is called once, in insertion
\* order, each inside its own try/catch
publish(map, seed, throwers) ==
    [invoked |-> map[seed], threw |-> FALSE]

eventsOnly ==
    UNCHANGED <<draft, lastOp, store, writeLocks, clients, reqs, writeCount,
                storageVars, resolved, stored, pages, inbox, validateVars>>

\* GET /api/draft/stream?seed=...: start() subscribes the connection's listener
E_Connect(k, seed) ==
    /\ streams[k] = NoStream
    /\ streams' = [streams EXCEPT ![k].seed = seed, ![k].subscribed = TRUE]
    /\ listeners' = subscribe(listeners, seed, k)
    /\ UNCHANGED published
    /\ eventsOnly

\* The abort listener of req.signal: unsubscribe(), controller.close()
E_Abort(k) ==
    /\ streams[k].subscribed
    /\ ~streams[k].aborted
    /\ streams' = [streams EXCEPT ![k].aborted = TRUE]
    /\ listeners' = unsubscribe(listeners, streams[k].seed, k)
    /\ UNCHANGED published
    /\ eventsOnly

\* cancel() of the ReadableStream: unsubscribe()
E_Cancel(k) ==
    /\ streams[k].subscribed
    /\ ~streams[k].cancelled
    /\ streams' = [streams EXCEPT ![k].cancelled = TRUE]
    /\ listeners' = unsubscribe(listeners, streams[k].seed, k)
    /\ UNCHANGED published
    /\ eventsOnly

\* publish(seed, version) after a write; throwers are the listeners whose
\* call raises
E_Publish(seed, throwers) ==
    /\ published.version < MaxPublish
    /\ LET call == publish(listeners, seed, throwers)
       IN /\ published' = [seed |-> seed, version |-> published.version + 1,
                           throwers |-> throwers,
                           invoked |-> call.invoked, threw |-> call.threw]
          /\ streams' = [k \in Conns |->
                           IF k \in Range(call.invoked)
                           THEN [streams[k] EXCEPT !.received = @ + 1]
                           ELSE streams[k]]
    /\ UNCHANGED listeners
    /\ eventsOnly

InitEvents ==
    /\ draft = <<>>
    /\ lastOp = <<>>
    /\ store = <<>>
    /\ writeLocks = <<>>
    /\ clients = <<>>
    /\ reqs = <<>>
    /\ writeCount = 0
    /\ storageIdle
    /\ resolved = <<>>
    /\ stored = 0
    /\ pages = <<>>
    /\ inbox = <<>>
    /\ listeners = [seed \in Seeds |-> <<>>]
    /\ streams = [k \in Conns |-> NoStream]
    /\ published = [seed |-> NoSeed, version |-> 0, throwers |-> {},
                    invoked |-> <<>>, threw |-> FALSE]
    /\ validateIdle

NextEvents ==
    \/ \E k \in Conns, seed \in Seeds : E_Connect(k, seed)
    \/ \E k \in Conns : E_Abort(k)
    \/ \E k \in Conns : E_Cancel(k)
    \/ \E seed \in Seeds, throwers \in SUBSET Conns : E_Publish(seed, throwers)

SpecEvents == InitEvents /\ [][NextEvents]_vars

\* A step that is a call of publish
publishes == published'.version # published.version

\* A step that runs the release of connection k
releases(k) ==
    \/ streams'[k].aborted /\ ~streams[k].aborted
    \/ streams'[k].cancelled /\ ~streams[k].cancelled

\* C25: a publish calls every listener of its seed exactly once, also after
\* one of them threw, calls no listener of another seed, and never throws
C25_PublishBestEffort ==
    /\ [](/\ NoDuplicates(published.invoked)
          /\ \A l \in Range(published.invoked) : streams[l].seed = published.seed
          /\ ~published.threw)
    /\ [][publishes =>
            Range(published'.invoked) = Range(listeners[published'.seed])]_vars

\* A publish whose first listener threw still reached a second listener,
\* while another seed had a listener of its own
C25_Witness ==
    /\ Len(published.invoked) >= 2
    /\ published.invoked[1] \in published.throwers
    /\ \E seed \in Seeds \ {published.seed} : listeners[seed] # <<>>

\* C26: a connection that was aborted or cancelled is in no listener Set and
\* is not called by a later publish, and its release, run once or twice,
\* takes nothing but its own listener out of the map
C26_ReleaseOnDisconnect ==
    /\ [](\A k \in Conns : (streams[k].aborted \/ streams[k].cancelled) =>
            \A seed \in Seeds : k \notin Range(listeners[seed]))
    /\ [][publishes =>
            \A l \in Range(published'.invoked) :
                ~(streams[l].aborted \/ streams[l].cancelled)]_vars
    /\ [][\A k \in Conns : releases(k) =>
            \A seed \in Seeds :
                listeners'[seed] = SelectSeq(listeners[seed], LAMBDA l : l # k)]_vars

\* A connection that had received a notification was released twice, and a
\* later publish on its seed reached the other connection of the seed only
C26_Witness ==
    \E k \in Conns : \E other \in Conns \ {k} :
        /\ streams[k].aborted /\ streams[k].cancelled
        /\ streams[k].received >= 1
        /\ streams[other].seed = streams[k].seed
        /\ published.seed = streams[k].seed
        /\ published.invoked = <<other>>
        /\ other \in Range(listeners[published.seed])

(***************************************************************************)
(* SpecValidate: validateDraftConfig applied to parsed JSON values.        *)
(* A JSON value is a pair of its typeof and its content; a number is kept  *)
(* in halves (Num(1) is 0.5) and the name by its length.                   *)
(***************************************************************************)
MaxRawSteps == 1

Undefined == <<"undefined">>

Str(s) == <<"string", s>>

Num(halves) == <<"number", halves>>

Bool(b) == <<"boolean", b>>

Arr(seq) == <<"array", seq>>

Obj(fields) == <<"object", fields>>

typeof(v) == v[1]

isString(v, values) == typeof(v) = "string" /\ v[2] \in values

\* validPlayer: an object whose name is a string
validPlayer(p) == typeof(p) = "object" /\ typeof(p[2].name) = "string"

\* validateDraftConfig, on a value of unknown type
validateDraftConfigJson(c) ==
    /\ typeof(c.name) = "string" /\ c.name[2] <= 200
    /\ typeof(c.teamSize) = "number" /\ c.teamSize[2] \in {2 * n : n \in VALID_TEAM_SIZES}
    /\ typeof(c.banMode) = "undefined" \/ isString(c.banMode, {"global", "per-team"})
    /\ typeof(c.allowDuplicatePicks) \in {"undefined", "boolean"}
    /\ typeof(c.civPool) = "array" /\ Len(c.civPool[2]) <= MAX_POOL_SIZE
    /\ \A i \in DOMAIN c.civPool[2] : isString(c.civPool[2][i], civIds)
    /\ typeof(c.mapPool) = "array" /\ Len(c.mapPool[2]) <= MAX_POOL_SIZE
    /\ \A i \in DOMAIN c.mapPool[2] : isString(c.mapPool[2][i], mapIds)
    /\ typeof(c.steps) = "array" /\ Len(c.steps[2]) # 0 /\ Len(c.steps[2]) <= MAX_STEPS
    /\ \A i \in DOMAIN c.steps[2] :
          LET s == c.steps[2][i] IN
          /\ isString(s.action, {"ban", "pick"})
          /\ isString(s.target, {"civ", "map"})
          /\ isString(s.team, {"team1", "team2"})
          /\ typeof(s.playerIndex) # "undefined" =>
                /\ typeof(s.playerIndex) = "number"
                /\ ~(s.playerIndex[2] < 0)
                /\ ~(s.playerIndex[2] >= c.teamSize[2])
          /\ typeof(s.hidden) \in {"undefined", "boolean"}
          /\ typeof(s.auto) \in {"undefined", "boolean"}
    /\ typeof(c.team1Name) = "string" /\ typeof(c.team2Name) = "string"
    /\ typeof(c.team1Players) = "array" /\ typeof(c.team2Players) = "array"
    /\ 2 * Len(c.team1Players[2]) = c.teamSize[2]
    /\ 2 * Len(c.team2Players[2]) = c.teamSize[2]
    /\ \A i \in DOMAIN c.team1Players[2] : validPlayer(c.team1Players[2][i])
    /\ \A i \in DOMAIN c.team2Players[2] : validPlayer(c.team2Players[2][i])

\* The values the validator is explored with
JsonStep == [action |-> Str("ban"), target |-> Str("civ"), team |-> Str("team1"),
             playerIndex |-> Undefined, hidden |-> Undefined, auto |-> Undefined]

JsonSteps ==
    {JsonStep,
     [JsonStep EXCEPT !.action = Str("pick"), !.target = Str("map"), !.team = Str("team2"),
                      !.playerIndex = Num(0), !.hidden = Bool(TRUE), !.auto = Bool(FALSE)],
     [JsonStep EXCEPT !.playerIndex = Num(1)],
     [JsonStep EXCEPT !.playerIndex = Num(2)],
     [JsonStep EXCEPT !.playerIndex = Num(-2)],
     [JsonStep EXCEPT !.playerIndex = Str("0")],
     [JsonStep EXCEPT !.action = Str("swap")],
     [JsonStep EXCEPT !.target = Str("unit")],
     [JsonStep EXCEPT !.team = Str("team3")],
     [JsonStep EXCEPT !.hidden = Str("yes")]}

JsonPlayer == Obj([name |-> Str("")])

JsonConfigs ==
    [name : {Str(4), Str(201)},
     teamSize : {Num(2), Num(3), Num(4), Num(10)},
     banMode : {Undefined, Str("per-team"), Str("both")},
     allowDuplicatePicks : {Undefined, Bool(FALSE), Str("no")},
     civPool : {Arr(<<Str("c1")>>), Arr(<<Str("c1"), Str("zz")>>), Arr(<<>>)},
     mapPool : {Arr(<<Str("m1")>>), Arr(<<Num(2)>>)},
     steps : {Arr(seq) : seq \in UNION {[1..n -> JsonSteps] : n \in 0..MaxRawSteps}},
     team1Name : {Str("")},
     team2Name : {Str("")},
     team1Players : {Arr(<<JsonPlayer>>), Arr(<<JsonPlayer, JsonPlayer>>),
                     Arr(<<JsonPlayer, Obj([name |-> Undefined])>>), Arr(<<>>)},
     team2Players : {Arr(<<JsonPlayer>>), Arr(<<JsonPlayer, JsonPlayer>>)}]

validateIdleRest ==
    UNCHANGED <<draft, lastOp, store, writeLocks, clients, reqs, writeCount,
                storageVars, resolved, eventVars>>

\* One call of validateDraftConfig: the config, or null
V_Validate ==
    /\ verdict = "none"
    /\ verdict' = IF validateDraftConfigJson(posted) THEN "config" ELSE "null"
    /\ UNCHANGED posted
    /\ validateIdleRest

InitValidate ==
    /\ draft = <<>>
    /\ lastOp = <<>>
    /\ store = <<>>
    /\ writeLocks = <<>>
    /\ clients = <<>>
    /\ reqs = <<>>
    /\ writeCount = 0
    /\ storageIdle
    /\ resolved = <<>>
    /\ eventsIdle
    /\ posted \in JsonConfigs
    /\ verdict = "none"

NextValidate == V_Validate

SpecValidate == InitValidate /\ [][NextValidate]_vars

\* The rules of a draft configuration
isInteger(v) == typeof(v) = "number" /\ v[2] % 2 = 0

rulesHold(c) ==
    /\ isInteger(c.teamSize)
    /\ 2 * Len(c.team1Players[2]) = c.teamSize[2]
    /\ 2 * Len(c.team2Players[2]) = c.teamSize[2]
    /\ \A i \in DOMAIN c.civPool[2] : isString(c.civPool[2][i], civIds)
    /\ \A i \in DOMAIN c.mapPool[2] : isString(c.mapPool[2][i], mapIds)
    /\ c.steps[2] # <<>>
    /\ typeof(c.banMode) = "undefined" \/ isString(c.banMode, BanModes)
    /\ \A i \in DOMAIN c.steps[2] :
          LET s == c.steps[2][i] IN
          /\ isString(s.action, {"ban", "pick"})
          /\ isString(s.target, {"civ", "map"})
          /\ isString(s.team, TeamKeys)
          /\ typeof(s.playerIndex) # "undefined" =>
                /\ isInteger(s.playerIndex)
                /\ s.playerIndex[2] >= 0
                /\ s.playerIndex[2] < c.teamSize[2]

\* C27: validateDraftConfig returns the config only when every rule holds:
\* players arrays of length teamSize, every playerIndex an integer in
\* [0, teamSize), pool ids of the catalog, at least one step, valid
\* action/target/team/banMode values; otherwise it returns null
C27_ValidatorRejectsBrokenConfigs ==
    /\ verdict \in {"none", "config", "null"}
    /\ verdict = "config" => rulesHold(posted)

(***************************************************************************)
(* SpecUpsert: the two endpoints that write the record of a seed, called   *)
(* with arbitrary bodies: POST /api/draft with a full state, POST          *)
(* /api/draft/action with a mutation.  published is the list of the        *)
(* versions handed to publish.                                             *)
(***************************************************************************)
\* The configs posted with a full state: the first two are well-formed, the
\* third has a playerIndex beyond teamSize, the fourth an unknown civ id
PostedConfigs ==
    {mkConfig(1, <<mkStep("pick", "civ", "team1", 0, FALSE, FALSE)>>),
     mkConfig(1, <<hbStep("team1", FALSE), hbStep("team2", FALSE)>>),
     mkConfig(1, <<mkStep("pick", "civ", "team1", 1, FALSE, FALSE)>>),
     [mkConfig(1, <<hbStep("team1", FALSE)>>) EXCEPT !.civPool = <<"c1", "zz">>]}

\* POST /api/draft without the validation of the embedded config
U_Post_noGate(c, config) ==
    /\ reqs[c].pc \in {"idle", "rejected"}
    /\ writeCount + Len(writeLocks) < MaxPosts
    /\ reqs' = [reqs EXCEPT ![c] =
                   [IdleReq EXCEPT !.kind = "post", !.role = clients[c].role,
                                   !.state = createInitialDraftState(config),
                                   !.base = clients[c].versionRef, !.pc = "queued"]]
    /\ writeLocks' = withWriteLock(writeLocks, c)
    /\ UNCHANGED <<draft, lastOp, store, clients, writeCount, storageVars, resolved,
                   eventVars, validateVars>>

\* POST /api/draft: a 400 answer when the embedded config is not valid,
\* else writeDraft chained on the seed
U_Post(c, config) ==
    /\ reqs[c].pc \in {"idle", "rejected"}
    /\ writeCount + Len(writeLocks) < MaxPosts
    /\ LET body == [IdleReq EXCEPT !.kind = "post", !.role = clients[c].role,
                                   !.state = createInitialDraftState(config),
                                   !.base = clients[c].versionRef]
       IN IF ~validateDraftConfig(config)
          THEN /\ reqs' = [reqs EXCEPT ![c] = [body EXCEPT !.pc = "rejected"]]
               /\ UNCHANGED writeLocks
          ELSE /\ reqs' = [reqs EXCEPT ![c] = [body EXCEPT !.pc = "queued"]]
               /\ writeLocks' = withWriteLock(writeLocks, c)
    /\ UNCHANGED <<draft, lastOp, store, clients, writeCount, storageVars, resolved,
                   eventVars, validateVars>>

\* The write of either endpoint, followed by publish(seed, result.version)
U_Write(c) ==
    /\ commit(c)
    /\ published' = Append(published, store'.version)
    /\ UNCHANGED <<draft, lastOp, storageVars, resolved, stored, pages, inbox,
                   listeners, streams, validateVars>>

NextUpsert ==
    \/ \E c \in Clients, config \in PostedConfigs : U_Post(c, config)
    \/ \E c \in Clients, action \in PostedActions, role \in PostedRoles,
          itemId \in PostedItems : POST(c, action, role, itemId)
    \/ \E c \in Clients : lockedRead(c)
    \/ \E c \in Clients : U_Write(c)

SpecUpsert == Init /\ [][NextUpsert]_vars

\* c's full-state request is answered with an error in this step
refused(c) ==
    /\ reqs'[c] # reqs[c]
    /\ reqs'[c].kind = "post"
    /\ reqs'[c].pc = "rejected"

\* c's gateway mutation is written in this step
mutates(c) == reqs[c].pc = "locked" /\ reqs[c].kind = "action" /\ reqs'[c].pc = "idle"

\* C28: the stored config is always one that validateDraftConfig accepts, a
\* full-state POST with a config that fails validation changes neither the
\* record nor the lock chain nor the published versions, and a gateway
\* mutation leaves the stored config as it was
C28_ValidatorGatesTheStore ==
    /\ [](validateDraftConfig(store.state.config))
    /\ [][\A c \in Clients :
            (reqs'[c] # reqs[c] /\ reqs'[c].kind = "post" /\ reqs'[c].pc # "idle"
                /\ ~validateDraftConfig(reqs'[c].state.config))
            => /\ reqs'[c].pc = "rejected"
               /\ store' = store
               /\ writeLocks' = writeLocks
               /\ published' = published]_vars
    /\ [][\A c \in Clients : mutates(c) => store'.state.config = store.state.config]_vars

\* A full-state POST has replaced the config of the draft, a gateway mutation
\* has been written on top of it, and a POST with a broken config was refused
C28_Witness ==
    \E c \in Clients :
        /\ reqs[c].kind = "post"
        /\ reqs[c].pc = "rejected"
        /\ store.state.config \in PostedConfigs
        /\ store.state.readyPlayers # {}
        /\ Len(published) = 2

(***************************************************************************)
(* SpecStore, continued: the retention sweep                               *)
(***************************************************************************)
\* The running sweep removes what it selected in this step
purges == sweep = "expired" /\ sweep' = "idle"

\* C29: a record that cleanupOldDrafts removes was last written more than
\* DRAFT_TTL_DAYS ago, also when a write to the seed runs while the sweep is
\* between its read and its delete
C29_SweepSparesFreshRecords ==
    [][(purges /\ file.exists) => file.updatedAt < now - DRAFT_TTL_DAYS]_vars

(***************************************************************************)
(* Spec, continued: redaction and the store                                *)
(***************************************************************************)
\* Every id held by a state: the hidden buffers and the permanent arrays
heldIds(state) ==
    UNION {Range(state.hiddenBanPhase.team1Bans), Range(state.hiddenBanPhase.team2Bans),
           Range(state.team1.civBans), Range(state.team2.civBans),
           Range(state.team1.mapBans), Range(state.team2.mapBans),
           Range(state.team1.civPicks), Range(state.team2.civPicks),
           Range(state.team1.mapPicks), Range(state.team2.mapPicks)}

\* c's hidden-ban mutation is written in this step
writesHiddenBan(c) == mutates(c) /\ reqs[c].action = "hidden-ban"

C31_RedactionIdempotent ==
    \A r \in ViewerRoles :
        /\ redactHiddenBans(redactHiddenBans(draft, r), r) = redactHiddenBans(draft, r)
        /\ redactHiddenBans(redactHiddenBans(draft, r), Spectator)
              = redactHiddenBans(draft, Spectator)
        /\ ~draft.hiddenBanPhase.active => redactHiddenBans(draft, r) = draft

\* A phase in progress with both buffers filled, which every redaction changes
C31_Witness ==
    /\ draft.hiddenBanPhase.active
    /\ draft.hiddenBanPhase.team1Bans # <<>>
    /\ draft.hiddenBanPhase.team2Bans # <<>>
    /\ \A r \in ViewerRoles : redactHiddenBans(draft, r) # draft

(***************************************************************************)
(* Spec, continued: buffers, selection arrays and undo                     *)
(***************************************************************************)
\* The mutation of c, read under the lock, is a hidden ban of a team whose
\* buffer is full in the record it read
overfull(c) ==
    /\ reqs[c].pc = "locked"
    /\ reqs[c].kind = "action"
    /\ reqs[c].action = "hidden-ban"
    /\ reqs[c].rec.state.hiddenBanPhase.active
    /\ hasTeamCompletedHiddenBans(reqs[c].rec.state, getTeamFromRole(reqs[c].role))

\* C32: while a hidden phase is stored, neither buffer is longer than its
\* team's count, and a hidden ban of a team whose buffer is full leaves the
\* stored state as it was, whichever players of the team submit
C32_HiddenBufferBounds ==
    /\ [](store.state.hiddenBanPhase.active =>
            /\ Len(store.state.hiddenBanPhase.team1Bans) <= store.state.hiddenBanPhase.team1Count
            /\ Len(store.state.hiddenBanPhase.team2Bans) <= store.state.hiddenBanPhase.team2Count)
    /\ [][\A c \in Clients : (overfull(c) /\ mutates(c)) => store'.state = store.state]_vars

\* Two players of team1 have filled the team's buffer of two, and a third
\* hidden ban of the team has been read under the lock
C32_Witness ==
    \E c \in Clients :
        /\ overfull(c)
        /\ getTeamFromRole(reqs[c].role) = "team1"
        /\ reqs[c].rec.state.hiddenBanPhase.team1Count = 2
        /\ \A d \in Clients : getTeamFromRole(clients[d].role) = "team1"

\* new continues old: the earlier elements keep their position and value
extends(old, new) == Len(old) <= Len(new) /\ SubSeq(new, 1, Len(old)) = old

SelectionArrays == {"civBans", "civPicks", "mapBans", "mapPicks"}

appendOnly(old, new) ==
    \A team \in TeamKeys, a \in SelectionArrays :
        extends(getTeamData(old, team)[a], getTeamData(new, team)[a])

\* What handleReset writes
isFullReset(state) == state = createInitialDraftState(state.config)

\* C33: across every write other than a full reset, each of civBans,
\* civPicks, mapBans and mapPicks of the stored state continues its previous
\* value
C33_SelectionsAppendOnly ==
    [][isFullReset(store'.state) \/ appendOnly(store.state, store'.state)]_vars

\* The values Math.floor(Math.random() * available.length) can take
Draws == 0..(Len(CivPool) - 1)

\* c's auto-resolve mutation is written in this step
autoResolves(c) == mutates(c) /\ reqs[c].action = "auto-resolve"

\* C34: an auto-resolve, applied to the record read under the lock, appends
\* one element of that record's availability for its current step and
\* returns it as pickedId; on an empty availability or a step that is not
\* auto it returns the state as it is with no pickedId
C34_AutoResolveFromCurrentAvailability ==
    [][\A c \in Clients : autoResolves(c) =>
          LET rec == reqs[c].rec.state
              available == availableForStep(rec)
          IN /\ reqs[c].rec = store
             /\ IF isAutoStep(rec) /\ available # <<>>
                THEN \E x \in Range(available) :
                        /\ store'.state = applyAction(rec, x)
                        /\ \E r \in Draws :
                              resolveAutoStep(rec, r) = [state |-> store'.state, pickedId |-> x]
                ELSE /\ store'.state = rec
                     /\ \A r \in Draws :
                           resolveAutoStep(rec, r) = [state |-> rec, pickedId |-> NoItem]]_vars

\* An auto-resolve has read, under the lock, an auto step whose availability
\* is no longer the one its page showed when it asked
C34_Witness ==
    \E c \in Clients :
        /\ reqs[c].pc = "locked"
        /\ reqs[c].action = "auto-resolve"
        /\ isAutoStep(reqs[c].rec.state)
        /\ availableForStep(reqs[c].rec.state) # <<>>
        /\ availableForStep(reqs[c].rec.state) # availableForStep(clients[c].draftState)

\* The draft data of a state: position, completion, phase and the eight
\* selection arrays
draftData(state) ==
    [currentStepIndex |-> state.currentStepIndex,
     completed |-> state.completed,
     hiddenBanPhase |-> state.hiddenBanPhase,
     team1 |-> [a \in SelectionArrays |-> state.team1[a]],
     team2 |-> [a \in SelectionArrays |-> state.team2[a]]]

\* C35: a record with no current step is left as it is by applyAction and by
\* every gateway action written over it
C35_CompletedAbsorbing ==
    /\ [](~HasStep(store.state) =>
            \A x \in Range(CivPool) : applyAction(store.state, x) = store.state)
    /\ [][\A c \in Clients :
            (mutates(c) /\ ~HasStep(reqs[c].rec.state)
               /\ reqs[c].action \in {"init-hidden", "hidden-ban", "auto-resolve"})
            => draftData(store'.state) = draftData(store.state)]_vars

(***************************************************************************)
(* SpecDraft, continued: the run of a hidden-ban phase                     *)
(***************************************************************************)
\* Step i (0-based) of the configuration is a hidden ban
hiddenBanAt(config, i) ==
    i < Len(config.steps) /\ config.steps[i + 1].hidden /\ config.steps[i + 1].action = "ban"

\* The indices of the maximal contiguous run of hidden bans of one target
\* that starts at i
maximalRun(config, i) ==
    {j \in i..(Len(config.steps) - 1) :
        \A k \in i..j : /\ hiddenBanAt(config, k)
                        /\ config.steps[k + 1].target = config.steps[i + 1].target}

runSteps(config, i, team) ==
    Cardinality({j \in maximalRun(config, i) : config.steps[j + 1].team = team})

\* C36: detectHiddenBanPhase returns a phase exactly at a hidden ban whose
\* maximal run holds a step of each team; its counts are those of the run,
\* it starts at i and it ends within the step list
C36_DetectPhaseCharacterised ==
    \A i \in 0..Len(draft.config.steps) :
        LET phase == detectHiddenBanPhase(draft.config, i)
            n1 == runSteps(draft.config, i, "team1")
            n2 == runSteps(draft.config, i, "team2")
        IN /\ phase.active <=> (hiddenBanAt(draft.config, i) /\ n1 > 0 /\ n2 > 0)
           /\ ~phase.active => phase = NoPhase
           /\ phase.active =>
                 /\ phase.team1Count = n1
                 /\ phase.team2Count = n2
                 /\ phase.startIndex = i
                 /\ phase.target = draft.config.steps[i + 1].target
                 /\ phase.startIndex + phase.team1Count + phase.team2Count
                       <= Len(draft.config.steps)

\* init-hidden has opened the phase of a run that a hidden ban of the other
\* target follows
C36_Witness ==
    /\ lastOp.op = "init-hidden"
    /\ draft.hiddenBanPhase = detectHiddenBanPhase(draft.config, draft.currentStepIndex)
    /\ draft.hiddenBanPhase.active
    /\ hiddenBanAt(draft.config, draft.hiddenBanPhase.startIndex
                                   + draft.hiddenBanPhase.team1Count
                                   + draft.hiddenBanPhase.team2Count)

(***************************************************************************)
(* withWriteLock at the level of the map and its promises (SpecLock).      *)
(* ops is the sequence of the operations handed to withWriteLock, in       *)
(* submission order; operation i owns the promise voidChain number i.      *)
(*   queued    - fn waits for prev                                         *)
(*   running   - fn has started                                            *)
(*   settled   - fn has finished and voidChain is resolved                 *)
(*   collected - the clean-up callback of voidChain has run                *)
(* The clean-up callback is registered on voidChain before any later       *)
(* operation can chain fn on it, so it runs before that fn starts.         *)
(***************************************************************************)
\* No entry in the map; as prev, the promise Promise.resolve()
NoChain == 0

\* A clean-up callback that deletes the entry whatever it holds
collect_always(table, seed, voidChain) == [table EXCEPT ![seed] = NoChain]

\* if (writeLocks.get(seed) === voidChain) writeLocks.delete(seed)
collect(table, seed, voidChain) ==
    IF table[seed] = voidChain THEN [table EXCEPT ![seed] = NoChain] ELSE table

lockFrame ==
    UNCHANGED <<draft, lastOp, store, clients, reqs, writeCount, backend, file, now,
                pending, calls, returned, sweep, resolved, eventVars, validateVars>>

\* withWriteLock(seed, fn), the synchronous part: prev is read, fn is chained
\* on it and the new voidChain replaces the entry
L_Submit(seed) ==
    /\ Len(ops) < MaxOps
    /\ ops' = Append(ops, [seed |-> seed, prev |-> writeLocks[seed], pc |-> "queued"])
    /\ writeLocks' = [writeLocks EXCEPT ![seed] = Len(ops) + 1]
    /\ lockFrame

\* prev.then(fn, fn): fn starts once prev is settled and the callback
\* registered on prev before it has run
L_Start(i) ==
    /\ i \in DOMAIN ops
    /\ ops[i].pc = "queued"
    /\ IF ops[i].prev = NoChain THEN TRUE ELSE ops[ops[i].prev].pc = "collected"
    /\ ops' = [ops EXCEPT ![i].pc = "running"]
    /\ UNCHANGED writeLocks
    /\ lockFrame

\* fn returns or throws: result settles and voidChain resolves
L_Settle(i) ==
    /\ i \in DOMAIN ops
    /\ ops[i].pc = "running"
    /\ ops' = [ops EXCEPT ![i].pc = "settled"]
    /\ UNCHANGED writeLocks
    /\ lockFrame

\* The clean-up callback of voidChain number i
L_Collect(i) ==
    /\ i \in DOMAIN ops
    /\ ops[i].pc = "settled"
    /\ ops' = [ops EXCEPT ![i].pc = "collected"]
    /\ writeLocks' = collect(writeLocks, ops[i].seed, i)
    /\ lockFrame

InitLock ==
    /\ draft = <<>>
    /\ lastOp = <<>>
    /\ store = <<>>
    /\ writeLocks = [seed \in Seeds |-> NoChain]
    /\ clients = <<>>
    /\ reqs = <<>>
    /\ writeCount = 0
    /\ backend = "filesystem"
    /\ file = NoFile
    /\ now = 0
    /\ pending = <<>>
    /\ ops = <<>>
    /\ calls = 0
    /\ returned = <<>>
    /\ sweep = "idle"
    /\ resolved = <<>>
    /\ eventsIdle
    /\ validateIdle

NextLock ==
    \/ \E seed \in Seeds : L_Submit(seed)
    \/ \E i \in 1..MaxOps : L_Start(i)
    \/ \E i \in 1..MaxOps : L_Settle(i)
    \/ \E i \in 1..MaxOps : L_Collect(i)

SpecLock == InitLock /\ [][NextLock]_vars

\* The operations submitted for a seed
opsOf(seed) == {i \in DOMAIN ops : ops[i].seed = seed}

finished(i) == ops[i].pc \in {"settled", "collected"}

\* C37: once the operations of a seed have all finished the map has no entry
\* for it, or holds the promise whose clean-up callback is about to remove
\* it; an entry is removed only when no operation of the seed is queued or
\* running; at most one operation of a seed runs at a time; and an operation
\* starts only after every operation submitted before it for the seed has
\* finished
C37_LockTableCollected ==
    /\ [](\A seed \in Seeds :
            /\ (\A i \in opsOf(seed) : finished(i)) =>
                  \/ writeLocks[seed] = NoChain
                  \/ ops[writeLocks[seed]].pc = "settled"
            /\ (\A i \in opsOf(seed) : ops[i].pc = "collected") =>
                  writeLocks[seed] = NoChain
            /\ Cardinality({i \in opsOf(seed) : ops[i].pc = "running"}) <= 1
            /\ \A i, j \in opsOf(seed) :
                  (i < j /\ ops[j].pc # "queued") => finished(i))
    /\ [][\A seed \in Seeds :
            (writeLocks[seed] # NoChain /\ writeLocks'[seed] = NoChain) =>
               \A i \in opsOf(seed) : finished(i)]_vars

\* The entry of a seed has been removed once; of the two operations submitted
\* after that, one runs and the other waits behind it
C37_Witness ==
    \E seed \in Seeds : \E i, j, k \in opsOf(seed) :
        /\ i < j /\ j < k
        /\ ops[i].pc = "collected"
        /\ ops[j].prev = NoChain
        /\ ops[j].pc = "running"
        /\ ops[k].pc = "queued"
        /\ writeLocks[seed] = k

(***************************************************************************)
(* SpecRoute, continued: the ids a record holds                            *)
(***************************************************************************)
poolOf(config, target) == IF target = "civ" THEN config.civPool ELSE config.mapPool

\* C38: every id in a selection array or in a buffer of the open hidden
\* phase of the stored record belongs to the pool of its target
C38_StoredIdsInPool ==
    /\ \A team \in TeamKeys, action \in {"ban", "pick"}, target \in {"civ", "map"} :
          Range(teamArray(store.state, team, action, target))
             \subseteq Range(poolOf(store.state.config, target))
    /\ store.state.hiddenBanPhase.active =>
          Range(store.state.hiddenBanPhase.team1Bans)
             \cup Range(store.state.hiddenBanPhase.team2Bans)
             \subseteq Range(poolOf(store.state.config, store.state.hiddenBanPhase.target))

(***************************************************************************)
(* SpecDraft, continued: the frame of a normal step                        *)
(***************************************************************************)
\* C39: applyAction at a current step (team, action, target) appends the item
\* to that array of that team and moves to the next step, completing the
\* draft at the last one; the other seven arrays, config, readyPlayers and
\* hiddenBanPhase stay as they are
C39_ApplyActionFrame ==
    HasStep(draft) =>
        \A itemId \in AllItems :
            LET step == getCurrentStep(draft)
                new == applyAction(draft, itemId)
            IN /\ \A team \in TeamKeys, action \in {"ban", "pick"}, target \in {"civ", "map"} :
                     teamArray(new, team, action, target) =
                        IF <<team, action, target>> = <<step.team, step.action, step.target>>
                        THEN Append(teamArray(draft, team, action, target), itemId)
                        ELSE teamArray(draft, team, action, target)
               /\ new.currentStepIndex = draft.currentStepIndex + 1
               /\ new.completed =
                     (draft.completed \/ new.currentStepIndex >= Len(draft.config.steps))
               /\ new.config = draft.config
               /\ new.readyPlayers = draft.readyPlayers
               /\ new.hiddenBanPhase = draft.hiddenBanPhase

\* A pick has been applied for team1 after bans of both teams were revealed;
\* it was the last step and completed the draft
C39_Witness ==
    /\ lastOp.op = "select"
    /\ draft.team1.civPicks = <<lastOp.itemId>>
    /\ draft.team1.civBans # <<>>
    /\ draft.team2.civBans # <<>>
    /\ draft.currentStepIndex = Len(draft.config.steps)
    /\ draft.completed

(***************************************************************************)
(* SpecUndo: the sessions of Spec, with two history variables.             *)
(*   draft[c]  - the handler that issued c's latest full-state request     *)
(*   lastOp    - the latest write: the handler or gateway action it came   *)
(*               from, the version its page had when it was issued and the *)
(*               record it replaced                                        *)
(***************************************************************************)
NoWrite == [op |-> "none", base |-> 0, before |-> <<>>]

T_Select(c, itemId) ==
    /\ select(c, itemId)
    /\ draft' = [draft EXCEPT ![c] = "select"]
    /\ UNCHANGED lastOp

T_Undo(c) ==
    /\ undo(c)
    /\ draft' = [draft EXCEPT ![c] = "undo"]
    /\ UNCHANGED lastOp

T_Reset(c) ==
    /\ reset(c)
    /\ draft' = [draft EXCEPT ![c] = "reset"]
    /\ UNCHANGED lastOp

T_Write(c) ==
    /\ commit(c)
    /\ lastOp' = [op |-> IF reqs[c].kind = "post" THEN draft[c] ELSE reqs[c].action,
                  base |-> reqs[c].base,
                  before |-> store]
    /\ UNCHANGED <<draft, storageVars, resolved, eventVars, validateVars>>

\* The sessions whose draft has a pick, the others never call handleSelect
InitUndo ==
    /\ draft = [c \in Clients |-> "none"]
    /\ lastOp = NoWrite
    /\ InitSessions
    /\ \E i \in DOMAIN store.state.config.steps : store.state.config.steps[i].action = "pick"

NextUndo ==
    \/ \E c \in Clients : handleReady(c)
    \/ \E c \in Clients : hiddenInitEffect(c)
    \/ \E c \in Clients, itemId \in AllItems : handleHiddenBan(c, itemId)
    \/ \E c \in Clients : autoResolveEffect(c)
    \/ \E c \in Clients, itemId \in AllItems : T_Select(c, itemId)
    \/ \E c \in Clients : T_Undo(c)
    \/ \E c \in Clients : T_Reset(c)
    \/ \E c \in Clients : fetchLatest(c)
    \/ \E c \in Clients : lockedRead(c)
    \/ \E c \in Clients : T_Write(c)

SpecUndo == InitUndo /\ [][NextUndo]_vars

\* c's undo, issued from a page that shows the latest write, is written
undoes(c) ==
    /\ writes(c)
    /\ reqs[c].kind = "post"
    /\ draft[c] = "undo"
    /\ reqs[c].base = store.version

\* Each entry of the history is a state with a current step, the entries are
\* in the order of their steps and precede the stored state
orderedHistory(record) ==
    /\ \A k \in DOMAIN record.history : HasStep(record.history[k])
    /\ \A k, l \in DOMAIN record.history :
          k < l => record.history[k].currentStepIndex < record.history[l].currentStepIndex
    /\ \A k \in DOMAIN record.history :
          record.history[k].currentStepIndex < record.state.currentStepIndex

\* C40: an undo written directly after a pick restores the state and the
\* history that were stored before the pick; the stored history lists, in
\* order, the states that the selections were applied to; and an undo
\* request is only sent from a page whose history is not empty
C40_UndoRoundTrip ==
    /\ [][\A c \in Clients : (undoes(c) /\ lastOp.op = "select") =>
            /\ store'.state = lastOp.before.state
            /\ store'.history = lastOp.before.history]_vars
    /\ [](orderedHistory(store))
    /\ [][\A c \in Clients :
            (draft'[c] = "undo" /\ reqs'[c] # reqs[c]
                /\ reqs'[c].kind = "post" /\ reqs'[c].pc = "queued")
            => Len(clients[c].history) > 0]_vars

====
